---- MODULE Spec2Model ----
(***************************************************************************)
(* Verification model of the character validation add-on:                  *)
(*   - the four-stage validation pipeline (validate_character), the        *)
(*     cleanup executor (cleanup_character) and the two operators that     *)
(*     call them (ValidateCharacter, CleanupCharacter);                    *)
(*   - the rule classes of the Cleanup, Requirement and Warning stages;    *)
(*   - the schema checker TypeValidator._check_type.                       *)
(*                                                                         *)
(* Representation.  A name (of an object, data block, bone, ...) is a      *)
(* sequence of tokens, e.g. <<"Rig", ".", "001">> for 'Rig.001'; the empty *)
(* sequence stands for both '' and None, which the code treats alike with  *)
(* `not x`.  A report (dict rule-key -> {check, message}) is a set of      *)
(* records [key, check, message]; a message is the sequence of its lines.  *)
(***************************************************************************)
EXTENDS Integers, Sequences, FiniteSets, TLC

VARIABLES
    bpy_data,                 \* the scene: texts, objects, armatures, bones, meshes, materials
    validator_properties,     \* window_manager.validator_properties (incl. metadata and reports)
    bone_selector_collection, \* scene.bone_selector_collection: role -> bone name
    files,                    \* the asset file on disk, its backup and the export folder
    last_run,                 \* what the last helper/operator call did (observation only)
    edits,                    \* number of scene edits made by the user so far
    tv                        \* the TypeValidator check in progress (schema specification only)

vars == <<bpy_data, validator_properties, bone_selector_collection, files, last_run, edits, tv>>

(***************************************************************************)
(* Bounds of the model.                                                    *)
(***************************************************************************)
MaxEdits == 1

\* the most defects a scene handed to the cleanup mutations starts with
MaxDefects == 2

\* the most elements of a list in the metadata handed to TypeValidator
MaxListLen == 1

\* longest list given to a vector field of a material record
MaxVectorLen == 4

(***************************************************************************)
(* Names.                                                                  *)
(***************************************************************************)
NoName == << >>

HasDot(n) == \E i \in 1..Len(n) : n[i] = "."

endswith(n, tag) == Len(n) > 0 /\ n[Len(n)] = tag

\* re.sub(r'\.', '_', name)
re_sub_dot(n) == [i \in 1..Len(n) |-> IF n[i] = "." THEN "_" ELSE n[i]]

\* bone_name.split(':')[-1]
RECURSIVE split_colon_last(_)
split_colon_last(n) ==
    IF \E i \in 1..Len(n) : n[i] = ":"
    THEN split_colon_last(Tail(n))
    ELSE n

(***************************************************************************)
(* Static data of the add-on (reduced to the roles the rules look at).     *)
(***************************************************************************)
BLENDER_ADDON_VERSION == <<1, 2, 3>>

\* '.'.join(map(str, version))
RECURSIVE addon_version_tuple_to_str(_)
addon_version_tuple_to_str(version) ==
    IF Len(version) = 0 THEN << >>
    ELSE IF Len(version) = 1 THEN <<ToString(version[1])>>
    ELSE <<ToString(version[1]), ".">> \o addon_version_tuple_to_str(Tail(version))

standard_bone_names == <<"Hips", "LeftArm", "LeftHand">>

BoneRoles == {standard_bone_names[i] : i \in 1..Len(standard_bone_names)}

\* all_supported_bone_names: convention -> positionally aligned bone names
all_supported_bone_names ==
    << <<"Hips", "LeftArm", "LeftHand">>,
       <<"pelvis", "upperarm_l", "hand_l">> >>

standard_shapekey_names == <<"Basis", "eyeDn", "eyeL", "eyeR", "eyeUp">>

BlendshapeRoles == {standard_shapekey_names[i] : i \in 1..Len(standard_shapekey_names)}

(***************************************************************************)
(* The scene (bpy.data).  Three objects: an armature, a face mesh and a    *)
(* curves (hair) object, all in the view layer.                            *)
(***************************************************************************)
ObjOrder == <<"arm", "face", "hair">>
ObjIds == {"arm", "face", "hair"}
BoneIds == {<<"Hips">>, <<"LeftArm">>, <<"LeftHand">>}

\* parent links of the bones of the initial scene: LeftHand -> LeftArm -> Hips
BoneParent(b) ==
    IF b = <<"LeftHand">> THEN <<"LeftArm">>
    ELSE IF b = <<"LeftArm">> THEN <<"Hips">>
    ELSE NoName

NoObject == "NONE"

\* bpy.data.objects.get(name)
objects_get(data, name) ==
    IF \E o \in ObjIds : data.objects[o].name = name
    THEN CHOOSE o \in ObjIds : data.objects[o].name = name
    ELSE NoObject

IsArmature(data, o) == o # NoObject /\ data.objects[o].type = "ARMATURE"
IsMesh(data, o) == o # NoObject /\ data.objects[o].type = "MESH"

(***************************************************************************)
(* Validator (rule base): __call__ composes get() and check() into one     *)
(* report entry.  A rule whose get() dereferences a missing object raises. *)
(***************************************************************************)
Entry(key, check, message) == [key |-> key, check |-> check, message |-> message]

\* an instance whose message already carries the expansion of an earlier call
expand_message_accumulated(message, expansion) == Append(Append(message, expansion), expansion)

\* expand_message: self.message += '\n' + expansion
expand_message(message, expansion) == Append(message, expansion)

Ran(entry) == [raised |-> FALSE, entry |-> entry]
Raised == [raised |-> TRUE, entry |-> Entry("", FALSE, << >>)]

Keys(report) == {e.key : e \in report}
Failing(report) == \E e \in report : ~e.check
FailingKeys(report) == {e.key : e \in {x \in report : ~x.check}}

(***************************************************************************)
(* Cleanup stage: the seven rules.                                         *)
(***************************************************************************)
ValidatorCleanupTextFiles(data) ==
    LET text_file_names == data.texts
        message == <<"Text files detected!">>
    IN  IF text_file_names # {}
        THEN Ran(Entry("text_files_check", FALSE,
                       expand_message(message, "The following text files will be removed")))
        ELSE Ran(Entry("text_files_check", TRUE, message))

ValidatorCleanupArmaturePosePosition(metadata, data) ==
    LET armature == objects_get(data, metadata.body.armature_name)
        message == <<"Armature is not in Pose Position!">>
    IN  IF ~IsArmature(data, armature) THEN Raised
        ELSE IF data.armatures[armature].pose_position = "POSE"
        THEN Ran(Entry("armature_pose_position_check", TRUE, message))
        ELSE Ran(Entry("armature_pose_position_check", FALSE,
                       expand_message(message, "Armature will be set to Pose Position mode.")))

ValidatorCleanupHipsBoneRelations(metadata, data) ==
    LET armature == objects_get(data, metadata.body.armature_name)
        hips == metadata.body.bone_names["Hips"]
        message == <<"Wrong Hips bone relations settings!">>
    IN  IF ~IsArmature(data, armature) \/ hips \notin DOMAIN data.bones THEN Raised
        ELSE IF data.bones[hips].use_connect \/ ~data.bones[hips].use_local_location
        THEN Ran(Entry("hips_bone_relations_check", FALSE,
                       expand_message(message, "Connected option will be disabled and Local Location option enabled.")))
        ELSE Ran(Entry("hips_bone_relations_check", TRUE, message))

ValidatorCleanupBoneRotationMode(metadata, data) ==
    LET armature == objects_get(data, metadata.body.armature_name)
        bone_rotation_modes == {data.bones[b].rotation_mode : b \in DOMAIN data.bones}
        message == <<"Wrong bone rotation mode!">>
    IN  IF ~IsArmature(data, armature) THEN Raised
        ELSE IF \E m \in bone_rotation_modes : m # "XYZ"
        THEN Ran(Entry("bone_rotation_mode_check", FALSE,
                       expand_message(message, "Bone rotation mode will be set to XYZ for all main pose armature bones.")))
        ELSE Ran(Entry("bone_rotation_mode_check", TRUE, message))

ValidatorCleanupAutoSmooth(data) ==
    LET auto_smooth_values == {data.meshes[m].use_auto_smooth : m \in DOMAIN data.meshes}
        message == <<"Auto Smooth is enabled on some mesh objects!">>
    IN  IF TRUE \in auto_smooth_values
        THEN Ran(Entry("auto_smooth_check", FALSE,
                       expand_message(message, "Auto Smooth will be disabled on all Mesh objects.")))
        ELSE Ran(Entry("auto_smooth_check", TRUE, message))

\* ValidatorCleanupObjectNaming.get
all_names(data) ==
    {data.armatures[a].name : a \in DOMAIN data.armatures}
    \cup {data.materials[m].name : m \in DOMAIN data.materials}
    \cup {data.meshes[m].name : m \in DOMAIN data.meshes}
    \cup {data.objects[o].name : o \in ObjIds}

ValidatorCleanupObjectNaming(data) ==
    LET message == <<"Detected objects with . in their name!">>
    IN  IF \E n \in all_names(data) : HasDot(n)
        THEN Ran(Entry("syntax_check", FALSE,
                       expand_message(message, "All armature, material, mesh, and object names will be changed to include _ instead of . symbol.")))
        ELSE Ran(Entry("syntax_check", TRUE, message))

\* data.geo_nodes: the curves objects that carry a NODES modifier for which
\* _is_applyable is true
ValidatorCleanupCurvesGeoNodes(data) ==
    LET curves_objects == {o \in ObjIds : data.objects[o].type = "CURVES"}
        message == <<"Detected curves objects with geometry nodes! All geometry nodes will be applied.">>
    IN  IF \E o \in curves_objects : o \in data.geo_nodes
        THEN Ran(Entry("curves_geo_nodes_check", FALSE, message))
        ELSE Ran(Entry("curves_geo_nodes_check", TRUE, message))

\* an aggregator that stops at the first rule whose check is false
AggregateFailFast(rules) ==
    IF \E i \in 1..Len(rules) : rules[i].raised
    THEN [raised |-> TRUE, report |-> {}]
    ELSE [raised |-> FALSE,
          report |-> {rules[i].entry : i \in {j \in 1..Len(rules) :
                                                 \A k \in 1..(j - 1) : rules[k].entry.check}}]

\* A stage aggregator runs its rules in order; all of them run (no fail-fast);
\* an exception in one rule escapes the aggregator and no report is returned.
Aggregate(rules) ==
    IF \E i \in 1..Len(rules) : rules[i].raised
    THEN [raised |-> TRUE, report |-> {}]
    ELSE [raised |-> FALSE, report |-> {rules[i].entry : i \in 1..Len(rules)}]

ValidatorCleanup(metadata, data) ==
    Aggregate(<< ValidatorCleanupTextFiles(data),
                 ValidatorCleanupArmaturePosePosition(metadata, data),
                 ValidatorCleanupHipsBoneRelations(metadata, data),
                 ValidatorCleanupBoneRotationMode(metadata, data),
                 ValidatorCleanupAutoSmooth(data),
                 ValidatorCleanupObjectNaming(data),
                 ValidatorCleanupCurvesGeoNodes(data) >>)

(***************************************************************************)
(* Cleanup mutations (the cleanup() static methods).  Each returns the     *)
(* scene it leaves, or raises when it dereferences a missing object.       *)
(***************************************************************************)
Done(data) == [raised |-> FALSE, data |-> data]
Fails(data) == [raised |-> TRUE, data |-> data]

ValidatorCleanupTextFiles_cleanup(data) ==
    Done([data EXCEPT !.texts = {}])

ValidatorCleanupArmaturePosePosition_cleanup(armature_name, data) ==
    LET armature == objects_get(data, armature_name)
    IN  IF ~IsArmature(data, armature) THEN Fails(data)
        ELSE Done([data EXCEPT !.armatures[armature].pose_position = "POSE"])

ValidatorCleanupHipsBoneRelations_cleanup(armature_name, hips_bone_name, data) ==
    LET armature == objects_get(data, armature_name)
    IN  IF ~IsArmature(data, armature) \/ hips_bone_name \notin DOMAIN data.bones THEN Fails(data)
        ELSE Done([data EXCEPT !.bones[hips_bone_name].use_connect = FALSE,
                               !.bones[hips_bone_name].use_local_location = TRUE])

ValidatorCleanupBoneRotationMode_cleanup(armature_name, data) ==
    LET armature == objects_get(data, armature_name)
    IN  IF ~IsArmature(data, armature) THEN Fails(data)
        ELSE Done([data EXCEPT !.bones =
                      [b \in DOMAIN data.bones |-> [data.bones[b] EXCEPT !.rotation_mode = "XYZ"]]])

\* transform_apply on every supported object of the view layer
ValidatorCleanupTransforms_cleanup(data) ==
    Done([data EXCEPT !.transforms_applied = TRUE])

ValidatorCleanupAutoSmooth_cleanup(data) ==
    Done([data EXCEPT !.meshes =
             [m \in DOMAIN data.meshes |-> [data.meshes[m] EXCEPT !.use_auto_smooth = FALSE]]])

ValidatorCleanupCurvesGeoNodes_cleanup(data) ==
    Done([data EXCEPT !.geo_nodes =
             {o \in data.geo_nodes : data.objects[o].type # "CURVES"}])

\* The host keeps the names of one collection unique: assigning a name that
\* another item of the collection already has yields name.001, name.002, ...
Pad3(k) == IF k < 10 THEN "00" \o ToString(k) ELSE "0" \o ToString(k)

RECURSIVE host_unique_name(_, _, _)
host_unique_name(others, n, k) ==
    IF k = 0
    THEN IF n \in others THEN host_unique_name(others, n, 1) ELSE n
    ELSE IF (n \o <<".", Pad3(k)>>) \in others
         THEN host_unique_name(others, n, k + 1)
         ELSE n \o <<".", Pad3(k)>>

\* the while loop of string_swap: first of base, base_1, base_2, ... that
\* bpy.data.objects.get does not find
RECURSIVE swap_new_name(_, _, _)
swap_new_name(object_names, base_name, count) ==
    LET new_name == IF count = 0 THEN base_name
                    ELSE base_name \o <<"_", ToString(count)>>
    IN  IF new_name \in object_names
        THEN swap_new_name(object_names, base_name, count + 1)
        ELSE new_name

\* string_swap(objects) over the items of `coll` in the order `order`;
\* object_names(c) gives the names bpy.data.objects holds while c is the
\* current content of the collection being renamed.
RECURSIVE string_swap(_, _, _, _)
string_swap(coll, order, is_objects, fixed_object_names) ==
    IF order = << >> THEN coll
    ELSE LET id == Head(order)
         IN  IF id \notin DOMAIN coll \/ ~HasDot(coll[id].name)
             THEN string_swap(coll, Tail(order), is_objects, fixed_object_names)
             ELSE LET object_names == IF is_objects
                                      THEN {coll[j].name : j \in DOMAIN coll}
                                      ELSE fixed_object_names
                      base_name == re_sub_dot(coll[id].name)
                      new_name == swap_new_name(object_names, base_name, 0)
                      others == {coll[j].name : j \in DOMAIN coll \ {id}}
                      renamed == [coll EXCEPT ![id].name = host_unique_name(others, new_name, 0)]
                  IN  string_swap(renamed, Tail(order), is_objects, fixed_object_names)

MatOrder == <<"m1", "m2">>

ValidatorCleanupObjectNaming_cleanup(data) ==
    LET object_names == {data.objects[o].name : o \in ObjIds}
    IN  Done([data EXCEPT
                !.armatures = string_swap(data.armatures, <<"arm">>, FALSE, object_names),
                !.materials = string_swap(data.materials, MatOrder, FALSE, object_names),
                !.meshes = string_swap(data.meshes, <<"face">>, FALSE, object_names),
                !.objects = string_swap(data.objects, ObjOrder, TRUE, {})])

(***************************************************************************)
(* cleanup_character: the executor.                                        *)
(***************************************************************************)
\* the order of the `if validation_cleanup_messages.get(key)` statements
cleanup_order ==
    << "text_files_check", "armature_pose_position_check", "hips_bone_relations_check",
       "bone_rotation_mode_check", "transforms_check", "auto_smooth_check",
       "syntax_check", "curves_geo_nodes_check" >>

CleanupKeys == {cleanup_order[i] : i \in 1..Len(cleanup_order)}

\* the call made under `if validation_cleanup_messages.get(key):`
cleanup_call(key, metadata, data) ==
    CASE key = "text_files_check" -> ValidatorCleanupTextFiles_cleanup(data)
      [] key = "armature_pose_position_check" ->
            ValidatorCleanupArmaturePosePosition_cleanup(metadata.body.armature_name, data)
      [] key = "hips_bone_relations_check" ->
            ValidatorCleanupHipsBoneRelations_cleanup(
                metadata.body.armature_name, metadata.body.bone_names["Hips"], data)
      [] key = "bone_rotation_mode_check" ->
            ValidatorCleanupBoneRotationMode_cleanup(metadata.body.armature_name, data)
      [] key = "transforms_check" -> ValidatorCleanupTransforms_cleanup(data)
      [] key = "auto_smooth_check" -> ValidatorCleanupAutoSmooth_cleanup(data)
      [] key = "syntax_check" -> ValidatorCleanupObjectNaming_cleanup(data)
      [] key = "curves_geo_nodes_check" -> ValidatorCleanupCurvesGeoNodes_cleanup(data)

\* a lookup that yields a truthy default for an absent key
messages_get_default(report, key) == TRUE

\* validation_cleanup_messages.get(key): the entry, a non-empty dict, is truthy
\* whenever the key is present; None when it is absent
messages_get(report, key) == key \in Keys(report)

\* runs the statements of `order` one after the other; an exception in one
\* call ends the run and leaves the mutations made so far
RECURSIVE run_cleanups(_, _, _, _)
run_cleanups(order, report, metadata, st) ==
    IF order = << >> \/ st.raised THEN st
    ELSE LET key == Head(order)
         IN  IF messages_get(report, key)
             THEN LET r == cleanup_call(key, metadata, st.data)
                  IN  run_cleanups(Tail(order), report, metadata,
                                   [raised |-> r.raised, data |-> r.data,
                                    applied |-> Append(st.applied, key)])
             ELSE run_cleanups(Tail(order), report, metadata, st)

cleanup_character_mutations(report, metadata, data) ==
    run_cleanups(cleanup_order, report, metadata,
                 [raised |-> FALSE, data |-> data, applied |-> << >>])

(***************************************************************************)
(* Requirement stage.                                                      *)
(***************************************************************************)
poly_count_limit == 1500000
particle_count_limit == 100000

ValidatorRequirementMainPoseArmatureName(metadata) ==
    LET armature_name == metadata.body.armature_name
        message == <<"Wrong skeleton/armature name!">>
    IN  IF armature_name = NoName THEN Raised
        ELSE Ran(Entry("armature_name_check", endswith(armature_name, "BODY"), message))

ValidatorRequirementOneBodyArmature(data) ==
    LET armature_object_names ==
            {o \in ObjIds : data.objects[o].type = "ARMATURE" /\ endswith(data.objects[o].name, "BODY")}
        message == <<"Multiple main skeleton/armature!">>
    IN  Ran(Entry("one_body_armature_check", ~(Cardinality(armature_object_names) > 1), message))

ValidatorRequirementHipsBone(metadata) ==
    LET hips_bone_name == metadata.body.bone_names["Hips"]
    IN  Ran(Entry("hips_bone_check", hips_bone_name # NoName, <<"Hips bone not found!">>))

RECURSIVE SumOver(_, _)
SumOver(f, S) ==
    IF S = {} THEN 0
    ELSE LET x == CHOOSE y \in S : TRUE IN f[x] + SumOver(f, S \ {x})

\* a check that already fails at the limit
ValidatorRequirementPolyCount_strict(data) ==
    LET mesh_objects == {o \in ObjIds : data.objects[o].type = "MESH"}
        poly_count_sum == SumOver(data.polygons, mesh_objects)
    IN  Ran(Entry("poly_count_check", ~(poly_count_sum >= poly_count_limit),
                  <<"Poly count limit exceeded!">>))

ValidatorRequirementPolyCount(data) ==
    LET mesh_objects == {o \in ObjIds : data.objects[o].type = "MESH"}
        poly_count_sum == SumOver(data.polygons, mesh_objects)
    IN  Ran(Entry("poly_count_check", ~(poly_count_sum > poly_count_limit),
                  <<"Poly count limit exceeded!">>))

ValidatorRequirementHairStrandCount(data) ==
    LET particle_count_sum == SumOver(data.strands, ObjIds)
    IN  Ran(Entry("particle_count_check", ~(particle_count_sum > particle_count_limit),
                  <<"Hair strand limit exceeded!">>))

ValidatorRequirementTextureFilesExist(data) ==
    LET missing_textures == data.missing_textures
        message == <<"Missing or unsupported texture files detected!">>
    IN  IF missing_textures # {}
        THEN Ran(Entry("texture_files_check", FALSE,
                       expand_message(message, "Missing or unsupported texture files")))
        ELSE Ran(Entry("texture_files_check", TRUE, message))

ValidatorRequirementMainFaceMeshName(metadata) ==
    Ran(Entry("face_name_check", endswith(metadata.face.mesh_name, "FACE"),
              <<"Wrong face mesh name!">>))

ValidatorRequirementBlendshapes(metadata, data) ==
    LET mesh_obj == objects_get(data, metadata.face.mesh_name)
        message == <<"No valid blendshapes!">>
        blendshapes ==
            IF data.shape_keys[mesh_obj] = {} THEN {}
            ELSE {metadata.face.blendshape_names[standard_shapekey_names[i]] :
                     i \in 2..Len(standard_shapekey_names)} \ {NoName}
    IN  IF ~IsMesh(data, mesh_obj) THEN Raised
        ELSE IF blendshapes # {}
        THEN Ran(Entry("blendshapes_check", TRUE, message))
        ELSE Ran(Entry("blendshapes_check", FALSE,
                       expand_message(message, "Please check that the mesh has correctly named blendshapes.")))

ValidatorRequirementOneFaceMesh(data) ==
    LET face_object_names ==
            {o \in ObjIds : data.objects[o].type = "MESH" /\ endswith(data.objects[o].name, "FACE")}
    IN  Ran(Entry("one_face_mesh_check", ~(Cardinality(face_object_names) > 1),
                  <<"Multiple main face meshes!">>))

ValidatorRequirement(metadata, data) ==
    Aggregate(<< ValidatorRequirementMainPoseArmatureName(metadata),
                 ValidatorRequirementOneBodyArmature(data),
                 ValidatorRequirementHipsBone(metadata),
                 ValidatorRequirementPolyCount(data),
                 ValidatorRequirementHairStrandCount(data),
                 ValidatorRequirementTextureFilesExist(data) >>
              \o IF metadata.face.mesh_name # NoName
                 THEN << ValidatorRequirementMainFaceMeshName(metadata),
                         ValidatorRequirementBlendshapes(metadata, data),
                         ValidatorRequirementOneFaceMesh(data) >>
                 ELSE << >>)

\* blender_specific_messages: appends the extra text to the stored
\* texture_files_check message whenever that key is present
blender_specific_messages(validation_messages) ==
    {IF e.key = "texture_files_check"
     THEN [e EXCEPT !.message = Append(e.message, "TEXTURE_FILES_EXTEND_STR")]
     ELSE e : e \in validation_messages}

(***************************************************************************)
(* Warning stage.                                                          *)
(***************************************************************************)
ValidatorWarningMissingBones(metadata) ==
    LET missing_bones == {r \in BoneRoles : metadata.body.bone_names[r] = NoName}
        message == <<"Pose bones missing!">>
    IN  IF missing_bones # {}
        THEN Ran(Entry("missing_bones_check", FALSE, expand_message(message, "Missing bones")))
        ELSE Ran(Entry("missing_bones_check", TRUE, message))

\* a walk that stops at the parent of the target bone
walk_to_root_one_link(data, root_bone, target_bone) ==
    data.bones[target_bone].parent = root_bone

\* walks the parent links from the target bone; True when the root bone is met
RECURSIVE walk_to_root(_, _, _)
walk_to_root(data, root_bone, target_bone) ==
    IF data.bones[target_bone].parent = NoName THEN FALSE
    ELSE IF data.bones[target_bone].parent = root_bone THEN TRUE
    ELSE walk_to_root(data, root_bone, data.bones[target_bone].parent)

check_ik_chain(data, armature_name, root_bone_name, target_bone_name) ==
    LET armature == objects_get(data, armature_name)
    IN  IF ~IsArmature(data, armature) \/ target_bone_name \notin DOMAIN data.bones
        THEN [raised |-> TRUE, value |-> FALSE]
        ELSE [raised |-> FALSE,
              value |-> /\ root_bone_name \in DOMAIN data.bones
                        /\ walk_to_root(data, root_bone_name, target_bone_name)]

ik_pairs == << <<"LeftArm", "LeftHand">> >>

ValidatorWarningMissingIKChains(metadata, data) ==
    LET bn == metadata.body.bone_names
        message == <<"Unable to establish all IK bone chains!">>
        assigned == {i \in 1..Len(ik_pairs) : bn[ik_pairs[i][1]] # NoName /\ bn[ik_pairs[i][2]] # NoName}
        chain(i) == check_ik_chain(data, metadata.body.armature_name, bn[ik_pairs[i][1]], bn[ik_pairs[i][2]])
        missing_ik_pairs == {i \in 1..Len(ik_pairs) : i \notin assigned \/ ~chain(i).value}
    IN  IF \E i \in assigned : chain(i).raised THEN Raised
        ELSE IF missing_ik_pairs # {}
        THEN Ran(Entry("missing_ik_chains_check", FALSE, expand_message(message, "Missing IK chains")))
        ELSE Ran(Entry("missing_ik_chains_check", TRUE, message))

ValidatorWarningDisabledInRenders(data) ==
    LET disabled == {o \in ObjIds : data.objects[o].hide_render}
        message == <<"Disabled objects in the render!">>
    IN  IF disabled # {}
        THEN Ran(Entry("disabled_in_renders_check", FALSE, expand_message(message, "Disabled Objects")))
        ELSE Ran(Entry("disabled_in_renders_check", TRUE, message))

ValidatorWarningMissingBlendshapes(metadata) ==
    LET missing_blendshapes == {r \in BlendshapeRoles : metadata.face.blendshape_names[r] = NoName}
        message == <<"Some face blendshapes missing!">>
    IN  IF missing_blendshapes # {}
        THEN Ran(Entry("missing_blendshapes_check", FALSE, expand_message(message, "Missing blendshapes")))
        ELSE Ran(Entry("missing_blendshapes_check", TRUE, message))

gaze_blendshapes == {"eyeDn", "eyeL", "eyeR", "eyeUp"}

ValidatorWarningMissingEyeControls(metadata) ==
    LET missing_gaze_blendshapes == {r \in gaze_blendshapes : metadata.face.blendshape_names[r] = NoName}
        message == <<"Eye control blendshapes missing!">>
    IN  IF missing_gaze_blendshapes # {} /\ metadata.eyes_rig # << >>
        THEN Ran(Entry("missing_eye_controls_check", FALSE, expand_message(message, "Missing gaze blendshapes")))
        ELSE Ran(Entry("missing_eye_controls_check", TRUE, message))

ValidatorWarningMutedBlendshapes(metadata, data) ==
    LET mesh_object == objects_get(data, metadata.face.mesh_name)
        items == {metadata.face.blendshape_names[r] : r \in BlendshapeRoles} \ {NoName}
        message == <<"Muted blendshapes detected!">>
    IN  IF items # {} /\ (~IsMesh(data, mesh_object) \/ ~(items \subseteq data.shape_keys[mesh_object]))
        THEN Raised
        ELSE IF \E k \in items : k \in data.muted
        THEN Ran(Entry("muted_blendshapes_check", FALSE, expand_message(message, "Muted blendshapes")))
        ELSE Ran(Entry("muted_blendshapes_check", TRUE, message))

ValidatorUSDShaderNodes(data) ==
    LET bad_materials == {m \in DOMAIN data.materials : data.materials[m].usd_unsupported}
        message == <<"USD incompatible shader nodes detected!">>
    IN  IF bad_materials # {}
        THEN Ran(Entry("usd_shader_nodes_check", FALSE, expand_message(message, "Check materials")))
        ELSE Ran(Entry("usd_shader_nodes_check", TRUE, message))

ValidatorWarningUSDModifiers(data) ==
    LET bad_mesh_objects == {o \in ObjIds : data.objects[o].type = "MESH" /\ data.objects[o].breaking_modifiers}
        message == <<"Unsuported modifiers detected!">>
    IN  IF bad_mesh_objects # {}
        THEN Ran(Entry("usd_modifiers_check", FALSE, expand_message(message, "Check objects")))
        ELSE Ran(Entry("usd_modifiers_check", TRUE, message))

ValidatorWarning(metadata, toggle_usd, data) ==
    Aggregate(<< ValidatorWarningMissingBones(metadata),
                 ValidatorWarningMissingIKChains(metadata, data),
                 ValidatorWarningDisabledInRenders(data) >>
              \o (IF metadata.face.mesh_name # NoName
                  THEN << ValidatorWarningMissingBlendshapes(metadata),
                          ValidatorWarningMissingEyeControls(metadata),
                          ValidatorWarningMutedBlendshapes(metadata, data) >>
                  ELSE << >>)
              \o (IF toggle_usd
                  THEN << ValidatorUSDShaderNodes(data), ValidatorWarningUSDModifiers(data) >>
                  ELSE << >>))

(***************************************************************************)
(* Metadata stage.  One aggregate entry: the stored metadata is a valid    *)
(* CharacterMetadata and carries the current add-on version.               *)
(***************************************************************************)
\* match(r'^\d+\.\d+\.\d+$', version)
version_format_ok(v) ==
    /\ Len(v) = 5
    /\ \A i \in {1, 3, 5} : v[i] \in {ToString(d) : d \in 0..9}
    /\ v[2] = "." /\ v[4] = "."

supported_software == {"blender", "maya"}
supported_axis == {"X", "Y", "Z"}

schema_valid(metadata) ==
    /\ metadata.body.armature_name # NoName            \* armature_name: str
    /\ metadata.body.bone_names["Hips"] # NoName       \* Hips: str
    /\ \A i \in 1..Len(metadata.eyes_rig) :
          /\ metadata.eyes_rig[i].horizontal_rotation_axis \in supported_axis
          /\ metadata.eyes_rig[i].vertical_rotation_axis \in supported_axis
    /\ metadata.software \in supported_software
    /\ version_format_ok(metadata.version)

ValidatorMetadata(metadata, current_addon_version) ==
    LET message == <<"Metadata is not valid!">>
    IN  IF schema_valid(metadata) /\ metadata.version = current_addon_version
        THEN [raised |-> FALSE, report |-> {Entry("metadata_check", TRUE, message)}]
        ELSE [raised |-> FALSE,
              report |-> {Entry("metadata_check", FALSE, expand_message(message, "schema error"))}]

(***************************************************************************)
(* validate_character: the orchestrator.                                   *)
(***************************************************************************)
\* save_file(): purge orphans and write the scene to the asset file
save_file(fs, data) == [fs EXCEPT !.main = data]

\* validator_warning_object(validator_properties.metadata): the call passes
\* one argument to ValidatorWarning.__call__(self, metadata, toggle_usd), so
\* it raises TypeError before any Warning rule is evaluated
validate_character_warning_call(vp, data) ==
    [raised |-> TRUE, report |-> {}]

\* an orchestrator that misses the early return after the Metadata stage: it
\* goes on to the Cleanup stage and stores its report before returning
validate_character_no_halt(vp, data, fs) ==
    LET fs1 == save_file(fs, data)
        m == ValidatorMetadata(vp.metadata, addon_version_tuple_to_str(BLENDER_ADDON_VERSION))
        c == ValidatorCleanup(vp.metadata, data)
        vp2 == [vp EXCEPT !.validation_metadata_message = m.report,
                          !.validation_cleanup_messages = c.report,
                          !.validation_fail_messages = {},
                          !.validation_warning_messages = {}]
    IN  [result |-> IF Failing(m.report) THEN "metadata"
                    ELSE IF c.raised THEN "raised" ELSE "cleanup",
         vp |-> vp2, files |-> fs1, evaluated |-> {"metadata", "cleanup"}]

\* an orchestrator that does not clear the four stored reports when it starts
validate_character_keeps_reports(vp, data, fs) ==
    LET fs1 == save_file(fs, data)
        m == ValidatorMetadata(vp.metadata, addon_version_tuple_to_str(BLENDER_ADDON_VERSION))
        vp1 == [vp EXCEPT !.validation_metadata_message = m.report]
        c == ValidatorCleanup(vp.metadata, data)
        vp2 == [vp1 EXCEPT !.validation_cleanup_messages = c.report]
        r == ValidatorRequirement(vp.metadata, data)
        vp3 == [vp2 EXCEPT !.validation_fail_messages = blender_specific_messages(r.report)]
        w == validate_character_warning_call(vp, data)
        vp4 == [vp3 EXCEPT !.validation_warning_messages = w.report]
        out(tag, p, stages) == [result |-> tag, vp |-> p, files |-> fs1, evaluated |-> stages]
    IN  IF Failing(m.report) THEN out("metadata", vp1, {"metadata"})
        ELSE IF c.raised THEN out("raised", vp1, {"metadata", "cleanup"})
        ELSE IF Failing(c.report)
        THEN out("cleanup", [vp2 EXCEPT !.cleanup_required = TRUE], {"metadata", "cleanup"})
        ELSE IF r.raised THEN out("raised", vp2, {"metadata", "cleanup", "requirement"})
        ELSE IF Failing(r.report) THEN out("fail", vp3, {"metadata", "cleanup", "requirement"})
        ELSE IF w.raised THEN out("raised", vp3, {"metadata", "cleanup", "requirement"})
        ELSE IF Failing(w.report)
        THEN out("warning", vp4, {"metadata", "cleanup", "requirement", "warning"})
        ELSE out("clean", vp4, {"metadata", "cleanup", "requirement", "warning"})

\* Result of the function: the tag it returns ("raised" when an exception
\* leaves it), the properties and files it leaves, and the stages whose
\* aggregator it entered.
validate_character(vp, data, fs) ==
    LET fs1 == save_file(fs, data)
        vp0 == [vp EXCEPT !.validation_metadata_message = {},
                          !.validation_cleanup_messages = {},
                          !.validation_fail_messages = {},
                          !.validation_warning_messages = {}]
        m == ValidatorMetadata(vp.metadata, addon_version_tuple_to_str(BLENDER_ADDON_VERSION))
        vp1 == [vp0 EXCEPT !.validation_metadata_message = m.report]
        c == ValidatorCleanup(vp.metadata, data)
        vp2 == [vp1 EXCEPT !.validation_cleanup_messages = c.report]
        r == ValidatorRequirement(vp.metadata, data)
        vp3 == [vp2 EXCEPT !.validation_fail_messages = blender_specific_messages(r.report)]
        w == validate_character_warning_call(vp, data)
        vp4 == [vp3 EXCEPT !.validation_warning_messages = w.report]
        out(tag, p, stages) == [result |-> tag, vp |-> p, files |-> fs1, evaluated |-> stages]
    IN  IF Failing(m.report) THEN out("metadata", vp1, {"metadata"})
        ELSE IF c.raised THEN out("raised", vp1, {"metadata", "cleanup"})
        ELSE IF Failing(c.report)
        THEN out("cleanup", [vp2 EXCEPT !.cleanup_required = TRUE], {"metadata", "cleanup"})
        ELSE IF r.raised THEN out("raised", vp2, {"metadata", "cleanup", "requirement"})
        ELSE IF Failing(r.report) THEN out("fail", vp3, {"metadata", "cleanup", "requirement"})
        ELSE IF w.raised THEN out("raised", vp3, {"metadata", "cleanup", "requirement"})
        ELSE IF Failing(w.report)
        THEN out("warning", vp4, {"metadata", "cleanup", "requirement", "warning"})
        ELSE out("clean", vp4, {"metadata", "cleanup", "requirement", "warning"})

(***************************************************************************)
(* Helpers that write the metadata.                                        *)
(***************************************************************************)
\* write_armature_name / write_face_name: '' becomes None, both are NoName here
write_armature_name(vp) == [vp EXCEPT !.metadata.body.armature_name = vp.target_arm]
write_face_name(vp) == [vp EXCEPT !.metadata.face.mesh_name = vp.target_mesh]

\* register_bone_selector_collection: an empty collection gets one entry per role
register_bone_selector_collection(coll) ==
    IF coll.registered THEN coll
    ELSE [registered |-> TRUE, bone_name |-> [r \in BoneRoles |-> NoName]]

\* write_bone_names: copies every entry of the collection into the metadata
write_bone_names(metadata, coll) ==
    IF coll.registered
    THEN [metadata EXCEPT !.body.bone_names = [r \in BoneRoles |-> coll.bone_name[r]]]
    ELSE metadata

write_addon_version(metadata) ==
    [metadata EXCEPT !.version = addon_version_tuple_to_str(BLENDER_ADDON_VERSION)]

write_shapekey_names(target_mesh_name, metadata, data) ==
    LET target_mesh == objects_get(data, target_mesh_name)
        supported == {<<standard_shapekey_names[i]>> : i \in 1..Len(standard_shapekey_names)}
    IN  IF ~IsMesh(data, target_mesh) \/ data.shape_keys[target_mesh] = {}
        THEN [metadata EXCEPT !.face.blendshape_names = [r \in BlendshapeRoles |-> NoName],
                              !.eyes_rig = << >>]
        ELSE IF data.shape_keys[target_mesh] \cap supported = {}
        THEN metadata
        ELSE [metadata EXCEPT !.face.blendshape_names =
                 [r \in BlendshapeRoles |->
                     IF <<r>> \in data.shape_keys[target_mesh] THEN <<r>> ELSE NoName]]

\* a scan that appends a repeating value at every repetition
RECURSIVE duplicate_scan_every_repetition(_, _, _, _)
duplicate_scan_every_repetition(bones_dict, i, seen, duplicates) ==
    IF i > Len(standard_bone_names) THEN duplicates
    ELSE LET value == bones_dict[standard_bone_names[i]]
         IN  IF value \in seen /\ value # NoName
             THEN duplicate_scan_every_repetition(bones_dict, i + 1, seen, Append(duplicates, value))
             ELSE duplicate_scan_every_repetition(bones_dict, i + 1, seen \cup {value}, duplicates)

\* check_duplicate_assigned_bones over the values in key order
RECURSIVE duplicate_scan(_, _, _, _)
duplicate_scan(bones_dict, i, seen, duplicates) ==
    IF i > Len(standard_bone_names) THEN duplicates
    ELSE LET value == bones_dict[standard_bone_names[i]]
             in_duplicates == \E j \in 1..Len(duplicates) : duplicates[j] = value
         IN  IF value \in seen /\ ~in_duplicates /\ value # NoName
             THEN duplicate_scan(bones_dict, i + 1, seen, Append(duplicates, value))
             ELSE duplicate_scan(bones_dict, i + 1, seen \cup {value}, duplicates)

check_duplicate_assigned_bones(bones_dict) == duplicate_scan(bones_dict, 1, {}, << >>)

check_eye_bones(bones_dict, eye_bones_dict) ==
    SelectSeq([i \in 1..Len(eye_bones_dict) |-> eye_bones_dict[i].bone_name],
              LAMBDA b : \E r \in BoneRoles : bones_dict[r] = b)

\* a search that looks at the first bone of the armature only
bone_naming_convention_first_bone(data) ==
    LET matching == {c \in 1..Len(all_supported_bone_names) :
                        /\ Len(data.bone_order) > 0
                        /\ split_colon_last(data.bone_order[1]) = <<all_supported_bone_names[c][1]>>}
    IN  IF matching = {} THEN 0 ELSE CHOOSE c \in matching : \A d \in matching : c <= d

\* the first loop of auto_assign_bone_names: the first convention, in
\* declaration order, whose first entry is the colon-stripped name of some
\* bone of the armature; 0 when there is none
bone_naming_convention(data) ==
    LET matching == {c \in 1..Len(all_supported_bone_names) :
                        \E i \in 1..Len(data.bone_order) :
                            split_colon_last(data.bone_order[i]) = <<all_supported_bone_names[c][1]>>}
    IN  IF matching = {} THEN 0 ELSE CHOOSE c \in matching : \A d \in matching : c <= d

\* auto_assign_bone_names: every selector gets the last bone whose
\* colon-stripped name is the convention's entry at its position, or ''
auto_assign_bone_names(coll, data, target_arm_name) ==
    LET armature == objects_get(data, target_arm_name)
        convention == bone_naming_convention(data)
        named(i) == {k \in 1..Len(data.bone_order) :
                        split_colon_last(data.bone_order[k]) = <<all_supported_bone_names[convention][i]>>}
        bone_for(i) ==
            IF named(i) = {} THEN NoName
            ELSE data.bone_order[CHOOSE k \in named(i) : \A l \in named(i) : l <= k]
    IN  IF armature = NoObject \/ convention = 0 \/ ~coll.registered THEN coll
        ELSE [coll EXCEPT !.bone_name =
                 [r \in BoneRoles |->
                     bone_for(CHOOSE i \in 1..Len(standard_bone_names) : standard_bone_names[i] = r)]]

(***************************************************************************)
(* TypeValidator and the metadata records.  A value is a record            *)
(* [kind, text, items]: kind is the Python type of the value (a record     *)
(* class name for an instance), text the content of a str, items the       *)
(* entries of a dict, the attributes of an instance or the elements of a   *)
(* list.  A type annotation is a record [t, name, args].  Each record      *)
(* class is modelled with a few of its fields, one of every sort it has.   *)
(***************************************************************************)
Value(kind, text, items) == [kind |-> kind, text |-> text, items |-> items]
Item(name, value) == [name |-> name, value |-> value]

PyNone == Value("NoneType", << >>, << >>)
PyInt == Value("int", << >>, << >>)
PyFloat == Value("float", << >>, << >>)
PyStr(text) == Value("str", text, << >>)
PyDict(items) == Value("dict", << >>, items)
PyList(values) == Value("list", << >>, [i \in 1..Len(values) |-> Item("", values[i])])

T_str == [t |-> "prim", name |-> "str", args |-> << >>]
T_float == [t |-> "prim", name |-> "float", args |-> << >>]
T_NoneType == [t |-> "prim", name |-> "NoneType", args |-> << >>]
T_Union(members) == [t |-> "Union", name |-> "", args |-> members]
T_Optional(type) == T_Union(<<type, T_NoneType>>)
T_List(type) == [t |-> "list", name |-> "", args |-> <<type>>]
T_dataclass(cls) == [t |-> "dataclass", name |-> cls, args |-> << >>]

MaterialClasses == {"MetadataMaterialSurface", "MetadataMaterialFlat", "MetadataMaterialHair"}

\* the fields a material record's __post_init__ requires to hold 3 values
\* when they hold a list, in the order it tests them
vector_3_values(cls) ==
    CASE cls = "MetadataMaterialSurface" ->
            << "diffuse_value", "specular_value", "transmission_value", "sss_value",
               "sssRadius_value", "coat_value", "emission_value", "opacity_value" >>
      [] cls = "MetadataMaterialFlat" -> << "emission_value" >>
      [] cls = "MetadataMaterialHair" -> << "diffuse_value" >>
      [] OTHER -> << >>

\* cls.__annotations__
annotations(cls) ==
    CASE cls = "MetadataMaterialSurface" ->
            << Item("material_name", T_str), Item("material_type", T_str) >>
            \o [i \in 1..Len(vector_3_values(cls)) |->
                    Item(vector_3_values(cls)[i], T_Optional(T_List(T_float)))]
      [] cls = "MetadataMaterialFlat" ->
            << Item("material_name", T_str), Item("material_type", T_str),
               Item("emission_value", T_Optional(T_List(T_float))),
               Item("emission_texture", T_Optional(T_str)) >>
      [] cls = "MetadataMaterialHair" ->
            << Item("material_name", T_str), Item("material_type", T_str),
               Item("diffuse_value", T_Optional(T_List(T_float))),
               Item("melanin_value", T_Optional(T_float)) >>
      [] cls = "MetadataEyeRig" ->
            << Item("bone_name", T_str),
               Item("horizontal_rotation_axis", T_str), Item("vertical_rotation_axis", T_str),
               Item("horizontal_min_max_value", T_List(T_float)),
               Item("vertical_min_max_value", T_List(T_float)) >>
      [] cls = "MetadataBodyBones" ->
            << Item("Hips", T_str), Item("LeftArm", T_Optional(T_str)),
               Item("LeftHand", T_Optional(T_str)) >>
      [] cls = "MetadataBody" ->
            << Item("armature_name", T_str), Item("bone_names", T_dataclass("MetadataBodyBones")) >>
      [] cls = "MetadataFace" ->
            << Item("mesh_name", T_Optional(T_str)),
               Item("blendshape_names", T_dataclass("MetadataFaceBlendshapes")) >>
      [] cls = "MetadataFaceBlendshapes" ->
            [i \in 1..7 |-> Item(<<"Basis", "eyeDn", "eyeL", "eyeR", "eyeUp",
                                   "jawClenchL", "jawClenchR">>[i], T_Optional(T_str))]
      [] cls = "CharacterMetadata" ->
            << Item("software", T_str), Item("version", T_str),
               Item("materials", T_List(T_Union(<< T_dataclass("MetadataMaterialSurface"),
                                                   T_dataclass("MetadataMaterialFlat"),
                                                   T_dataclass("MetadataMaterialHair") >>))),
               Item("eyes_rig", T_List(T_dataclass("MetadataEyeRig"))),
               Item("body", T_dataclass("MetadataBody")),
               Item("face", T_dataclass("MetadataFace")) >>

\* getattr(value, name): the attribute of an instance, the entry of a dict
getattr(value, name) ==
    LET i == CHOOSE j \in 1..Len(value.items) : value.items[j].name = name
    IN  value.items[i].value

Returned(value, attr) == [exc |-> "none", value |-> value, attr |-> attr]
TypeError == [exc |-> "TypeError", value |-> PyNone, attr |-> PyNone]
ValueError(message) == [exc |-> "ValueError", value |-> PyStr(message), attr |-> PyNone]
NoError == Returned(PyNone, PyNone)

supported_material_types == {<<"surface">>, <<"flat">>, <<"hair">>}

\* a __post_init__ whose loop over vector_3_values stops after its first entry
value_constraints_first_vector(cls, instance) ==
    IF cls \notin MaterialClasses THEN NoError
    ELSE IF getattr(instance, "material_type").text \notin supported_material_types
    THEN ValueError(<<"Unsupported material type.">>)
    ELSE IF /\ getattr(instance, vector_3_values(cls)[1]).kind = "list"
            /\ Len(getattr(instance, vector_3_values(cls)[1]).items) # 3
    THEN ValueError(<<"Wrong ", vector_3_values(cls)[1], " format. Expected list of 3 float values.">>)
    ELSE NoError

\* the part of a record's __post_init__ that follows super().__post_init__():
\* the first ValueError it raises, NoError when it raises none
value_constraints(cls, instance) ==
    CASE cls \in MaterialClasses ->
            LET fields == vector_3_values(cls)
                wrong == {i \in 1..Len(fields) :
                              /\ getattr(instance, fields[i]).kind = "list"
                              /\ Len(getattr(instance, fields[i]).items) # 3}
                first == CHOOSE i \in wrong : \A j \in wrong : i <= j
            IN  IF getattr(instance, "material_type").text \notin supported_material_types
                THEN ValueError(<<"Unsupported material type.">>)
                ELSE IF wrong # {}
                THEN ValueError(<<"Wrong ", fields[first], " format. Expected list of 3 float values.">>)
                ELSE NoError
      [] cls = "MetadataEyeRig" ->
            IF getattr(instance, "horizontal_rotation_axis").text \notin {<<a>> : a \in supported_axis}
            THEN ValueError(<<"Unsupported horizontal_rotation_axis type.">>)
            ELSE IF getattr(instance, "vertical_rotation_axis").text \notin {<<a>> : a \in supported_axis}
            THEN ValueError(<<"Unsupported vertical_rotation_axis type.">>)
            ELSE IF Len(getattr(instance, "horizontal_min_max_value").items) # 2
            THEN ValueError(<<"Wrong horizontal_min_max_value format.">>)
            ELSE IF Len(getattr(instance, "vertical_min_max_value").items) # 2
            THEN ValueError(<<"Wrong vertical_min_max_value format.">>)
            ELSE NoError
      [] cls = "CharacterMetadata" ->
            IF getattr(instance, "software").text \notin {<<s>> : s \in supported_software}
            THEN ValueError(<<"Unsupported software type.">>)
            ELSE IF ~version_format_ok(getattr(instance, "version").text)
            THEN ValueError(<<"Unsupported version format.">>)
            ELSE NoError
      [] OTHER -> NoError

RECURSIVE _check_type(_, _)
RECURSIVE union_members(_, _, _)
RECURSIVE list_items(_, _, _)
RECURSIVE sub_fields(_, _, _)
RECURSIVE post_init(_, _, _)
RECURSIVE dataclass_init(_, _)

\* a dataclass branch that converts mappings and refuses everything else
coerce_mappings_only(value, field_type) ==
    IF value.kind = "dict" THEN dataclass_init(field_type.name, value) ELSE TypeError

\* the conversion at the head of the dataclass branch: a dict that is not an
\* instance of the record is given to the record's constructor, any other
\* value is kept as it is
coerce(value, field_type) ==
    IF value.kind # field_type.name /\ value.kind = "dict"
    THEN dataclass_init(field_type.name, value)
    ELSE Returned(value, value)

\* the loop over union_types: the first member that does not raise TypeError
\* gives new_value; any other exception leaves the loop
union_members(value, union_types, i) ==
    IF i > Len(union_types) THEN Returned(PyNone, PyNone)
    ELSE LET r == _check_type(value, union_types[i])
         IN  IF r.exc = "none" THEN r
             ELSE IF r.exc = "TypeError" THEN union_members(value, union_types, i + 1)
             ELSE r

\* the loop over the items of a list; Returned when every item passed
list_items(value, element_type, i) ==
    IF i > Len(value.items) THEN Returned(value, value)
    ELSE LET r == _check_type(value.items[i].value, element_type)
         IN  IF r.exc # "none" THEN r ELSE list_items(value, element_type, i + 1)

\* the loop over field_type.__annotations__ of an instance of the record
sub_fields(value, fields, i) ==
    IF i > Len(fields) THEN Returned(value, value)
    ELSE LET r == _check_type(getattr(value, fields[i].name), fields[i].value)
         IN  IF r.exc # "none" THEN r ELSE sub_fields(value, fields, i + 1)

\* TypeValidator._check_type(field_name, value, field_type): what it raises,
\* what it returns, and the attribute it leaves on self for the field
_check_type(value, field_type) ==
    IF field_type.t = "Union"
    THEN LET r == union_members(value, field_type.args, 1)
             new_value == r.value
         IN  IF r.exc # "none" THEN r
             ELSE IF new_value = PyNone /\ value # PyNone THEN TypeError
             ELSE Returned(value, new_value)
    ELSE IF field_type.t = "list"
    THEN IF value.kind # "list" THEN TypeError
         ELSE list_items(value, field_type.args[1], 1)
    ELSE IF field_type.t = "dataclass"
    THEN LET built == coerce(value, field_type)
         IN  IF built.exc # "none" THEN built
             ELSE IF built.value.kind = field_type.name
             THEN sub_fields(built.value, annotations(field_type.name), 1)
             ELSE Returned(built.value, built.value)
    ELSE IF value.kind # field_type.name THEN TypeError
         ELSE Returned(value, value)

\* TypeValidator.__post_init__: every annotated field in turn; `instance`
\* collects the attributes the checks leave
post_init(instance, fields, i) ==
    IF i > Len(fields) THEN Returned(instance, instance)
    ELSE LET r == _check_type(getattr(instance, fields[i].name), fields[i].value)
         IN  IF r.exc # "none" THEN r
             ELSE post_init([instance EXCEPT !.items[i].value = r.attr], fields, i + 1)

\* a constructor whose __post_init__ tests the value constraints before it
\* calls super().__post_init__()
dataclass_init_constraints_first(cls, kwargs) ==
    LET fields == annotations(cls)
        names == {fields[i].name : i \in 1..Len(fields)}
        given == {kwargs.items[i].name : i \in 1..Len(kwargs.items)}
        raw == Value(cls, << >>, [i \in 1..Len(fields) |->
                                    Item(fields[i].name, getattr(kwargs, fields[i].name))])
    IN  IF given # names THEN TypeError
        ELSE IF cls = "CharacterMetadata" /\ value_constraints(cls, raw) # NoError
        THEN value_constraints(cls, raw)
        ELSE LET checked == post_init(raw, fields, 1)
             IN  IF checked.exc # "none" THEN checked
                 ELSE IF value_constraints(cls, checked.value) # NoError
                 THEN value_constraints(cls, checked.value)
                 ELSE checked

\* field_type(**value): the generated __init__ takes exactly the annotated
\* fields as keywords, then __post_init__ runs
dataclass_init(cls, kwargs) ==
    LET fields == annotations(cls)
        names == {fields[i].name : i \in 1..Len(fields)}
        given == {kwargs.items[i].name : i \in 1..Len(kwargs.items)}
        raw == Value(cls, << >>, [i \in 1..Len(fields) |->
                                    Item(fields[i].name, getattr(kwargs, fields[i].name))])
    IN  IF given # names THEN TypeError
        ELSE LET checked == post_init(raw, fields, 1)
             IN  IF checked.exc # "none" THEN checked
                 ELSE IF value_constraints(cls, checked.value) # NoError
                 THEN value_constraints(cls, checked.value)
                 ELSE checked

(***************************************************************************)
(* Initial state: a saved asset file, a clean scene, and the add-on's      *)
(* properties with their defaults.  The armature object's name and the     *)
(* material names are drawn from a small set of scenes.                    *)
(***************************************************************************)
ArmatureNames == { <<"Rig", "_", "BODY">>, <<"Rig", ".", "BODY">>, <<"Rig">> }

OneMaterial == [m1 |-> [name |-> <<"Skin">>, usd_unsupported |-> FALSE]]

\* two materials whose names collide once the dot is replaced
CollidingMaterials ==
    [m1 |-> [name |-> <<"Skin", ".", "001">>, usd_unsupported |-> FALSE],
     m2 |-> [name |-> <<"Skin", "_", "001">>, usd_unsupported |-> FALSE]]

MaterialSets == {OneMaterial, CollidingMaterials}

InitialScene(armature_name, materials) ==
    [ texts |-> {},
      objects |-> [ arm |-> [name |-> armature_name, type |-> "ARMATURE",
                             hide_render |-> FALSE, breaking_modifiers |-> FALSE],
                    face |-> [name |-> <<"Head", "_", "FACE">>, type |-> "MESH",
                              hide_render |-> FALSE, breaking_modifiers |-> FALSE],
                    hair |-> [name |-> <<"Hair">>, type |-> "CURVES",
                              hide_render |-> FALSE, breaking_modifiers |-> FALSE] ],
      armatures |-> [arm |-> [name |-> <<"Armature">>, pose_position |-> "POSE"]],
      bones |-> [b \in BoneIds |->
                    [use_connect |-> FALSE, use_local_location |-> TRUE, rotation_mode |-> "XYZ",
                     parent |-> BoneParent(b)]],
      bone_order |-> << <<"Hips">>, <<"LeftArm">>, <<"LeftHand">> >>,
      meshes |-> [face |-> [name |-> <<"HeadMesh">>, use_auto_smooth |-> FALSE]],
      materials |-> materials,
      geo_nodes |-> {},
      polygons |-> [o \in ObjIds |-> IF o = "face" THEN 1000 ELSE 0],
      strands |-> [o \in ObjIds |-> 0],
      missing_textures |-> {},
      shape_keys |-> [o \in ObjIds |->
                         IF o = "face" THEN {<<"Basis">>, <<"eyeDn">>, <<"eyeL">>, <<"eyeR">>} ELSE {}],
      muted |-> {},
      images |-> << >>,
      transforms_applied |-> FALSE ]

InitialMetadata ==
    [ software |-> "blender",
      version |-> <<"0", ".", "0", ".", "0">>,
      materials |-> << >>,
      eyes_rig |-> << >>,
      body |-> [armature_name |-> NoName, bone_names |-> [r \in BoneRoles |-> NoName]],
      face |-> [mesh_name |-> NoName, blendshape_names |-> [r \in BlendshapeRoles |-> NoName]] ]

InitialProperties ==
    [ validation_metadata_message |-> {},
      validation_cleanup_messages |-> {},
      validation_fail_messages |-> {},
      validation_warning_messages |-> {},
      cleanup_required |-> FALSE,
      validation_status |-> [status |-> "STATUS: Run Validation.", alert |-> TRUE],
      toggle_usd |-> FALSE,
      target_arm |-> NoName,
      target_mesh |-> NoName,
      metadata |-> InitialMetadata ]

CurrentAddonVersion == addon_version_tuple_to_str(BLENDER_ADDON_VERSION)

NoRun ==
    [ op |-> "none", call |-> "none", returned |-> "none", evaluated |-> {},
      applied |-> << >>, report |-> {}, export |-> "none", chain |-> 0,
      before |-> [bone_name |-> [r \in BoneRoles |-> NoName], eyes_rig |-> << >>] ]

TvIdle == [pc |-> "idle", cls |-> "", input |-> PyNone, result |-> Returned(PyNone, PyNone),
           again |-> Returned(PyNone, PyNone)]

Init ==
    /\ \E an \in ArmatureNames, ms \in MaterialSets :
          /\ ms = CollidingMaterials => an = <<"Rig", "_", "BODY">>
          /\ bpy_data = InitialScene(an, ms)
          /\ files = [main |-> InitialScene(an, ms), backup |-> {}, export |-> {}]
    /\ validator_properties = InitialProperties
    /\ bone_selector_collection = [registered |-> FALSE, bone_name |-> [r \in BoneRoles |-> NoName]]
    /\ last_run = NoRun
    /\ edits = 0
    /\ tv = TvIdle

(***************************************************************************)
(* Operators of the add-on.                                                *)
(***************************************************************************)
\* what the last operator did, with the bone selectors and the eye rigs it
\* started from
Observed(op, call, returned, evaluated, applied, report, export, chain) ==
    [ op |-> op, call |-> call, returned |-> returned, evaluated |-> evaluated,
      applied |-> applied, report |-> report, export |-> export, chain |-> chain,
      before |-> [bone_name |-> bone_selector_collection.bone_name,
                  eyes_rig |-> validator_properties.metadata.eyes_rig] ]

\* position in the sequence validate (returned 'cleanup') -> cleanup -> validate
\* with nothing else in between
ChainAfterValidate(call) ==
    IF last_run.chain = 2 THEN 3
    ELSE IF call = "cleanup" THEN 1
    ELSE 0

\* GrabSelectedArmOperator.execute on the selected armature object
GrabSelectedArmOperator(o) ==
    /\ bpy_data.objects[o].type = "ARMATURE"
    /\ validator_properties' =
          write_armature_name([validator_properties EXCEPT !.target_arm = bpy_data.objects[o].name])
    /\ bone_selector_collection' = register_bone_selector_collection(bone_selector_collection)
    /\ last_run' = NoRun
    /\ UNCHANGED <<bpy_data, files, edits, tv>>

\* GrabSelectedMeshOperator.execute on the selected mesh object
GrabSelectedMeshOperator(o) ==
    /\ bpy_data.objects[o].type = "MESH"
    /\ validator_properties' =
          write_face_name([validator_properties EXCEPT !.target_mesh = bpy_data.objects[o].name])
    /\ last_run' = NoRun
    /\ UNCHANGED <<bpy_data, bone_selector_collection, files, edits, tv>>

\* AutoAssignBones.execute
AutoAssignBones ==
    /\ bone_selector_collection' =
          auto_assign_bone_names(bone_selector_collection, bpy_data, validator_properties.target_arm)
    /\ last_run' = Observed("AutoAssignBones",
                            IF \/ objects_get(bpy_data, validator_properties.target_arm) = NoObject
                               \/ bone_naming_convention(bpy_data) = 0
                            THEN "ERROR" ELSE "INFO",
                            IF bone_selector_collection.registered THEN "FINISHED" ELSE "RAISED",
                            {}, << >>, {}, "none", 0)
    /\ UNCHANGED <<bpy_data, validator_properties, files, edits, tv>>

\* the user flips the 'Enable USD Support' checkbox
ToggleUSD ==
    /\ edits < MaxEdits
    /\ validator_properties' = [validator_properties EXCEPT !.toggle_usd = ~@]
    /\ edits' = edits + 1
    /\ last_run' = NoRun
    /\ UNCHANGED <<bpy_data, bone_selector_collection, files, tv>>

\* validate_character called on the session as it is
validate_character_call ==
    \E v \in {validate_character(validator_properties, bpy_data, files)} :
        /\ validator_properties' = v.vp
        /\ files' = v.files
        /\ last_run' = Observed("validate_character", v.result,
                                IF v.result = "raised" THEN "RAISED" ELSE "none",
                                v.evaluated, << >>, {}, "none", ChainAfterValidate(v.result))
        /\ UNCHANGED <<bpy_data, bone_selector_collection, edits, tv>>

\* an execute without the pre-check of the Hips bone
pre_checks_without_hips(data, target_arm, target_mesh, target_arm_bones, eye_bones_dict) ==
    /\ IsArmature(data, target_arm)
    /\ check_duplicate_assigned_bones(target_arm_bones) = << >>
    /\ target_mesh # NoObject => data.objects[target_mesh].type = "MESH"
    /\ target_mesh # NoObject => data.shape_keys[target_mesh] # {}
    /\ check_eye_bones(target_arm_bones, eye_bones_dict) = << >>

\* the six pre-checks of ValidateCharacter.execute
pre_checks(data, target_arm, target_mesh, target_arm_bones, eye_bones_dict) ==
    /\ IsArmature(data, target_arm)
    /\ target_arm_bones["Hips"] # NoName
    /\ check_duplicate_assigned_bones(target_arm_bones) = << >>
    /\ target_mesh # NoObject => data.objects[target_mesh].type = "MESH"
    /\ target_mesh # NoObject => data.shape_keys[target_mesh] # {}
    /\ check_eye_bones(target_arm_bones, eye_bones_dict) = << >>

\* an execute that forgets the early return of the 'fail' branch
reaches_export_after_fail(call) == call \notin {"metadata", "cleanup"}

\* whether execute goes on to ExportData after validate_character returned:
\* the branches for 'metadata', 'cleanup' and 'fail' return CANCELLED
reaches_export(call) == call \notin {"metadata", "cleanup", "fail"}

\* the text_static *_STATUS text and the alert flag each branch of execute sets
status_after(call, status) ==
    CASE call = "metadata" -> [status |-> "STATUS: Run Validation.", alert |-> TRUE]
      [] call = "cleanup" -> [status |-> "STATUS: Run Cleanup.", alert |-> TRUE]
      [] call = "fail" -> [status |-> "STATUS: Failed.", alert |-> TRUE]
      [] call = "warning" -> [status |-> "STATUS: Passed with Warnings.", alert |-> FALSE]
      [] call = "clean" -> [status |-> "STATUS: Passed.", alert |-> FALSE]
      [] OTHER -> status

\* ExportData.copy_texture_files: the loop over bpy.data.images from image i
\* on.  new_paths is the local variable of that name, unbound until a branch
\* assigns it; the `if new_paths:` of an image that left it unbound raises
\* UnboundLocalError.  image.files is what the resolver of the image's
\* source returns.
RECURSIVE copy_texture_files(_, _, _, _)
copy_texture_files(images, i, new_paths, texture_paths) ==
    IF i > Len(images) THEN [raised |-> FALSE, texture_paths |-> texture_paths]
    ELSE IF \/ ~images[i].users
            \/ images[i].packed_file
            \/ images[i].name \in {"Render Result", "Viewer Node"}
    THEN copy_texture_files(images, i + 1, new_paths, texture_paths)
    ELSE LET assigned == IF images[i].source \in {"FILE", "TILED", "SEQUENCE"}
                         THEN [bound |-> TRUE, paths |-> images[i].files]
                         ELSE new_paths
         IN  IF ~assigned.bound THEN [raised |-> TRUE, texture_paths |-> texture_paths]
             ELSE copy_texture_files(images, i + 1, assigned, texture_paths \o assigned.paths)

\* ExportData(metadata): copies the asset file and the texture files and
\* writes metadata.json
ExportData(fs, metadata) ==
    [fs EXCEPT !.export =
        {[blend |-> fs.main, metadata |-> metadata,
          textures |-> copy_texture_files(fs.main.images, 1, [bound |-> FALSE, paths |-> << >>],
                                          << >>).texture_paths]}]

\* ValidateCharacter.execute
ValidateCharacter ==
    LET vp == validator_properties
        target_arm == objects_get(bpy_data, vp.target_arm)
        target_mesh == objects_get(bpy_data, vp.target_mesh)
        md1 == write_bone_names(vp.metadata, bone_selector_collection)
        md2 == write_addon_version(write_shapekey_names(vp.target_mesh, md1, bpy_data))
    IN  \E v \in {validate_character([vp EXCEPT !.metadata = md2], bpy_data, files)} :
        LET vs == [v.vp EXCEPT !.validation_status = status_after(v.result, @)] IN
        /\ UNCHANGED <<bpy_data, bone_selector_collection, edits, tv>>
        /\ IF ~pre_checks(bpy_data, target_arm, target_mesh, md1.body.bone_names, md1.eyes_rig)
           THEN /\ validator_properties' = [vp EXCEPT !.metadata = md1]
                /\ files' = files
                /\ last_run' = Observed("ValidateCharacter", "none", "CANCELLED", {}, << >>, {},
                                        "none", IF last_run.chain = 2 THEN 3 ELSE 0)
           ELSE IF v.result = "raised"
           THEN /\ validator_properties' = v.vp
                /\ files' = v.files
                /\ last_run' = Observed("ValidateCharacter", "raised", "RAISED", v.evaluated, << >>, {},
                                        "none", ChainAfterValidate(v.result))
           ELSE IF ~reaches_export(v.result)
           THEN /\ validator_properties' = vs
                /\ files' = v.files
                /\ last_run' = Observed("ValidateCharacter", v.result, "CANCELLED", v.evaluated, << >>, {},
                                        "none", ChainAfterValidate(v.result))
           ELSE \E export_outcome \in
                      {"ok", "FileNotFoundError", "Exception"} \
                         (IF copy_texture_files(v.files.main.images, 1,
                                                [bound |-> FALSE, paths |-> << >>], << >>).raised
                          THEN {"ok"} ELSE {}) :
                /\ validator_properties' = vs
                /\ files' = IF export_outcome = "ok" THEN ExportData(v.files, vs.metadata) ELSE v.files
                /\ last_run' = Observed("ValidateCharacter", v.result,
                                        IF export_outcome = "ok" THEN "FINISHED" ELSE "CANCELLED",
                                        v.evaluated, << >>, {}, export_outcome,
                                        ChainAfterValidate(v.result))

\* a cleanup_character that copies the asset file after save_file
CleanupCharacter_backup_after_save ==
    LET vp == validator_properties
        report == vp.validation_cleanup_messages
        chain == IF last_run.chain = 1 THEN 2 ELSE 0
    IN  \E c \in {cleanup_character_mutations(report, vp.metadata, bpy_data)} :
        /\ bpy_data' = c.data
        /\ UNCHANGED <<bone_selector_collection, edits, tv>>
        /\ IF c.raised
           THEN /\ files' = files
                /\ validator_properties' = vp
                /\ last_run' = Observed("CleanupCharacter", "none", "RAISED", {}, c.applied, report,
                                        "none", 0)
           ELSE /\ files' = [save_file(files, c.data) EXCEPT !.backup = {c.data}]
                /\ validator_properties' =
                      [vp EXCEPT !.cleanup_required = FALSE,
                                 !.validation_cleanup_messages = {},
                                 !.validation_status.status = "STATUS: Run Validation."]
                /\ last_run' = Observed("CleanupCharacter", "none", "FINISHED", {}, c.applied, report,
                                        "none", chain)

\* CleanupCharacter.execute, with cleanup_character inlined: backup copy of
\* the asset file, the mutations, save_file; then the operator's own updates
CleanupCharacter ==
    LET vp == validator_properties
        report == vp.validation_cleanup_messages
        fs1 == [files EXCEPT !.backup = {files.main}]
        chain == IF last_run.chain = 1 THEN 2 ELSE 0
    IN  \E c \in {cleanup_character_mutations(report, vp.metadata, bpy_data)} :
        /\ bpy_data' = c.data
        /\ UNCHANGED <<bone_selector_collection, edits, tv>>
        /\ IF c.raised
           THEN /\ files' = fs1
                /\ validator_properties' = vp
                /\ last_run' = Observed("CleanupCharacter", "none", "RAISED", {}, c.applied, report,
                                        "none", 0)
           ELSE /\ files' = save_file(fs1, c.data)
                /\ validator_properties' =
                      [vp EXCEPT !.cleanup_required = FALSE,
                                 !.validation_cleanup_messages = {},
                                 \* text_static.CLEANUP_COMPLETE_STATUS
                                 !.validation_status.status = "STATUS: Run Validation."]
                /\ last_run' = Observed("CleanupCharacter", "none", "FINISHED", {}, c.applied, report,
                                        "none", chain)

(***************************************************************************)
(* The user edits the scene in the host (at most MaxEdits times).          *)
(***************************************************************************)
Edit(data) ==
    /\ edits < MaxEdits
    /\ data # bpy_data
    /\ bpy_data' = data
    /\ edits' = edits + 1
    /\ last_run' = NoRun
    /\ UNCHANGED <<validator_properties, bone_selector_collection, files, tv>>

EditAddText == Edit([bpy_data EXCEPT !.texts = @ \cup {<<"Text">>}])

EditPosePosition(p) == Edit([bpy_data EXCEPT !.armatures["arm"].pose_position = p])

\* the user flips one of the two relation options of the Hips bone
EditHipsRelations(b, option) ==
    IF option = "use_connect"
    THEN Edit([bpy_data EXCEPT !.bones[b].use_connect = ~@])
    ELSE Edit([bpy_data EXCEPT !.bones[b].use_local_location = ~@])

EditRotationMode(b, mode) == Edit([bpy_data EXCEPT !.bones[b].rotation_mode = mode])

EditAutoSmooth(v) == Edit([bpy_data EXCEPT !.meshes["face"].use_auto_smooth = v])

EditGeoNodes(o) ==
    /\ bpy_data.objects[o].type = "CURVES"
    /\ Edit([bpy_data EXCEPT !.geo_nodes = @ \cup {o}])

PolygonCounts == {poly_count_limit, poly_count_limit + 1}

EditPolygons(n) == Edit([bpy_data EXCEPT !.polygons["face"] = n])

Next ==
    \/ \E o \in ObjIds : GrabSelectedArmOperator(o)
    \/ \E o \in ObjIds : GrabSelectedMeshOperator(o)
    \/ AutoAssignBones
    \/ ToggleUSD
    \/ validate_character_call
    \/ ValidateCharacter
    \/ CleanupCharacter
    \/ EditAddText
    \/ \E p \in {"POSE", "REST"} : EditPosePosition(p)
    \/ \E option \in {"use_connect", "use_local_location"} : EditHipsRelations(<<"Hips">>, option)
    \/ \E mode \in {"XYZ", "QUATERNION"} : EditRotationMode(<<"LeftArm">>, mode)
    \/ \E v \in BOOLEAN : EditAutoSmooth(v)
    \/ \E o \in ObjIds : EditGeoNodes(o)
    \/ \E n \in PolygonCounts : EditPolygons(n)

Spec == Init /\ [][Next]_vars

(***************************************************************************)
(* The cleanup mutations applied one at a time, in any order, to a scene   *)
(* for which validate_character returned 'cleanup'.                        *)
(***************************************************************************)
DefectOrder == <<"text", "rest", "connect", "quaternion", "auto_smooth", "geo_nodes">>

with_defect(data, defect) ==
    CASE defect = "text" -> [data EXCEPT !.texts = {<<"Text">>}]
      [] defect = "rest" -> [data EXCEPT !.armatures["arm"].pose_position = "REST"]
      [] defect = "connect" -> [data EXCEPT !.bones[<<"Hips">>].use_connect = TRUE]
      [] defect = "quaternion" -> [data EXCEPT !.bones[<<"LeftArm">>].rotation_mode = "QUATERNION"]
      [] defect = "auto_smooth" -> [data EXCEPT !.meshes["face"].use_auto_smooth = TRUE]
      [] defect = "geo_nodes" -> [data EXCEPT !.geo_nodes = {"hair"}]

RECURSIVE with_defects(_, _, _)
with_defects(data, order, defects) ==
    IF order = << >> THEN data
    ELSE with_defects(IF Head(order) \in defects THEN with_defect(data, Head(order)) ELSE data,
                      Tail(order), defects)

DefectSets ==
    {D \in SUBSET {DefectOrder[i] : i \in 1..Len(DefectOrder)} : Cardinality(D) <= MaxDefects}

\* the session after GrabSelectedArmOperator, AutoAssignBones and a
\* ValidateCharacter that returned 'cleanup'
InitCommute ==
    /\ \E an \in ArmatureNames, ms \in MaterialSets, D \in DefectSets :
          LET scene == with_defects(InitialScene(an, ms), DefectOrder, D)
              vp == write_armature_name([InitialProperties EXCEPT !.target_arm = an])
              coll == auto_assign_bone_names(
                         register_bone_selector_collection(
                            [registered |-> FALSE, bone_name |-> [r \in BoneRoles |-> NoName]]),
                         scene, an)
              md == write_addon_version(write_bone_names(vp.metadata, coll))
              v == validate_character([vp EXCEPT !.metadata = md], scene,
                                      [main |-> InitialScene(an, ms), backup |-> {}, export |-> {}])
          IN  /\ ms = CollidingMaterials => an = <<"Rig", "_", "BODY">>
              /\ v.result = "cleanup"
              /\ bpy_data = scene
              /\ files = v.files
              /\ bone_selector_collection = coll
              /\ validator_properties =
                    [v.vp EXCEPT !.validation_status = status_after(v.result, @)]
              /\ last_run = Observed("ValidateCharacter", "cleanup", "CANCELLED", v.evaluated,
                                     << >>, v.vp.validation_cleanup_messages, "none", 1)
    /\ edits = 0
    /\ tv = TvIdle

\* one cleanup() call of cleanup_character, for a failing rule not yet handled
cleanup_step(key) ==
    /\ last_run.returned # "RAISED"
    /\ key \in FailingKeys(validator_properties.validation_cleanup_messages)
    /\ \A i \in 1..Len(last_run.applied) : last_run.applied[i] # key
    /\ LET r == cleanup_call(key, validator_properties.metadata, bpy_data)
       IN  /\ bpy_data' = r.data
           /\ last_run' = [last_run EXCEPT !.op = "cleanup",
                                           !.applied = Append(@, key),
                                           !.returned = IF r.raised THEN "RAISED" ELSE "none"]
    /\ UNCHANGED <<validator_properties, bone_selector_collection, files, edits, tv>>

NextCommute == \E key \in CleanupKeys : cleanup_step(key)

SpecCommute == InitCommute /\ [][NextCommute]_vars

(***************************************************************************)
(* CharacterMetadata constructed from raw metadata.                        *)
(***************************************************************************)
Floats(n) == PyList([i \in 1..n |-> PyFloat])

MaterialFlat(material_name, material_type, emission_value) ==
    << Item("material_name", material_name), Item("material_type", material_type),
       Item("emission_value", emission_value), Item("emission_texture", PyNone) >>

MaterialItems ==
    { PyDict(MaterialFlat(PyStr(<<"Skin">>), PyStr(<<"flat">>), PyNone)),
      PyDict(MaterialFlat(PyStr(<<"Skin">>), PyStr(<<"flat">>), Floats(3))),
      PyDict(MaterialFlat(PyStr(<<"Skin">>), PyStr(<<"flat">>), Floats(2))),
      PyDict(MaterialFlat(PyStr(<<"Skin">>), PyStr(<<"glass">>), PyNone)),
      PyDict(MaterialFlat(PyInt, PyStr(<<"flat">>), PyNone)),
      PyDict(<< Item("material_name", PyStr(<<"Fur">>)), Item("material_type", PyStr(<<"hair">>)),
                Item("diffuse_value", PyNone), Item("melanin_value", PyFloat) >>),
      PyDict(<< Item("name", PyStr(<<"Skin">>)) >>),
      Value("MetadataMaterialFlat", << >>, MaterialFlat(PyStr(<<"Skin">>), PyStr(<<"flat">>), PyNone)),
      PyInt,
      PyStr(<<"Skin">>),
      PyNone }

MaterialLists ==
    {PyList(l) : l \in UNION {[1..n -> MaterialItems] : n \in 0..MaxListLen}} \cup {PyInt}

BodyBones(hips) == PyDict(<< Item("Hips", hips), Item("LeftArm", PyNone), Item("LeftHand", PyNone) >>)

Bodies ==
    { PyDict(<< Item("armature_name", PyStr(<<"Rig", "_", "BODY">>)),
                Item("bone_names", BodyBones(PyStr(<<"Hips">>))) >>),
      PyDict(<< Item("armature_name", PyInt), Item("bone_names", BodyBones(PyStr(<<"Hips">>))) >>),
      PyDict(<< Item("armature_name", PyStr(<<"Rig", "_", "BODY">>)),
                Item("bone_names", PyStr(<<"Hips">>)) >>),
      PyInt }

Faces ==
    { PyDict(<< Item("mesh_name", m),
                Item("blendshape_names",
                     PyDict([i \in 1..Len(annotations("MetadataFaceBlendshapes")) |->
                                Item(annotations("MetadataFaceBlendshapes")[i].name, PyNone)])) >>) :
        m \in {PyNone, PyStr(<<"Head", "_", "FACE">>), PyInt} }

Versions == {CurrentAddonVersion, <<"1", ".", "2">>}

EyeRig(bone_name, horizontal_rotation_axis, vertical_rotation_axis) ==
    PyDict(<< Item("bone_name", PyStr(bone_name)),
              Item("horizontal_rotation_axis", PyStr(<<horizontal_rotation_axis>>)),
              Item("vertical_rotation_axis", PyStr(<<vertical_rotation_axis>>)),
              Item("horizontal_min_max_value", Floats(2)),
              Item("vertical_min_max_value", Floats(2)) >>)

EyeRigLists ==
    {PyList(l) : l \in UNION {[1..n -> {EyeRig(<<"EyeL">>, "X", "Z"), EyeRig(<<"EyeL">>, "X", "W")}] :
                                 n \in 0..MaxListLen}} \cup {PyNone}

RawMetadata ==
    { PyDict(<< Item("software", PyStr(<<"blender">>)), Item("version", PyStr(version)),
                Item("materials", materials), Item("eyes_rig", eyes_rig),
                Item("body", body), Item("face", face) >>) :
        version \in Versions, materials \in MaterialLists, eyes_rig \in EyeRigLists,
        body \in Bodies, face \in Faces }

\* CharacterMetadata(**kwargs)
CharacterMetadata(kwargs) ==
    /\ tv.pc = "idle"
    /\ tv' = [tv EXCEPT !.pc = "done", !.cls = "CharacterMetadata", !.input = kwargs,
                        !.result = dataclass_init("CharacterMetadata", kwargs)]
    /\ UNCHANGED <<bpy_data, validator_properties, bone_selector_collection, files, last_run, edits>>

\* CharacterMetadata(software=c.software, ..., face=c.face) for the record c
\* that a construction returned
CharacterMetadataAgain ==
    /\ tv.pc = "done" /\ tv.cls = "CharacterMetadata" /\ tv.result.exc = "none"
    /\ tv' = [tv EXCEPT !.pc = "again",
                        !.again = dataclass_init("CharacterMetadata", tv.result.value)]
    /\ UNCHANGED <<bpy_data, validator_properties, bone_selector_collection, files, last_run, edits>>

\* json.load of the json.dump of a name of the metadata: None or a str
json_name(n) == IF n = NoName THEN PyNone ELSE PyStr(n)

\* json.load of the metadata.json that ExportData writes for `metadata`
json_load_dump(metadata) ==
    PyDict(<<
        Item("software", PyStr(<<metadata.software>>)),
        Item("version", PyStr(metadata.version)),
        Item("materials", PyList(metadata.materials)),
        Item("eyes_rig", PyList([i \in 1..Len(metadata.eyes_rig) |->
            PyDict(<< Item("bone_name", json_name(metadata.eyes_rig[i].bone_name)),
                      Item("horizontal_rotation_axis",
                           PyStr(<<metadata.eyes_rig[i].horizontal_rotation_axis>>)),
                      Item("vertical_rotation_axis",
                           PyStr(<<metadata.eyes_rig[i].vertical_rotation_axis>>)),
                      Item("horizontal_min_max_value",
                           Floats(Len(metadata.eyes_rig[i].horizontal_min_max_value))),
                      Item("vertical_min_max_value",
                           Floats(Len(metadata.eyes_rig[i].vertical_min_max_value))) >>)])),
        Item("body", PyDict(<<
            Item("armature_name", json_name(metadata.body.armature_name)),
            Item("bone_names", PyDict([i \in 1..Len(standard_bone_names) |->
                Item(standard_bone_names[i],
                     json_name(metadata.body.bone_names[standard_bone_names[i]]))])) >>)),
        Item("face", PyDict(<<
            Item("mesh_name", json_name(metadata.face.mesh_name)),
            Item("blendshape_names", PyDict([i \in 1..Len(standard_shapekey_names) |->
                Item(standard_shapekey_names[i],
                     json_name(metadata.face.blendshape_names[standard_shapekey_names[i]]))])) >>))
    >>)

\* an entry of metadata['eyes_rig'] with the default look angles
EyeDict(bone_name, horizontal_rotation_axis, vertical_rotation_axis) ==
    [ bone_name |-> bone_name,
      horizontal_rotation_axis |-> horizontal_rotation_axis,
      vertical_rotation_axis |-> vertical_rotation_axis,
      horizontal_min_max_value |-> <<-40, 30>>,
      vertical_min_max_value |-> <<-20, 25>> ]

\* the metadata that ValidateCharacter.execute hands to validate_character
\* and ExportData, for sessions on the initial scene in which the armature
\* was grabbed and the bones were assigned
ExportedMetadata ==
    { LET data == InitialScene(<<"Rig", "_", "BODY">>, OneMaterial)
          vp == write_face_name([write_armature_name(
                    [InitialProperties EXCEPT !.target_arm = <<"Rig", "_", "BODY">>])
                        EXCEPT !.target_mesh = target_mesh])
          coll == auto_assign_bone_names(
                      register_bone_selector_collection(
                          [registered |-> FALSE, bone_name |-> [r \in BoneRoles |-> NoName]]),
                      data, vp.target_arm)
          md1 == write_bone_names([vp.metadata EXCEPT !.eyes_rig = eyes_rig], coll)
      IN  write_addon_version(write_shapekey_names(vp.target_mesh, md1, data)) :
        target_mesh \in {NoName, <<"Head", "_", "FACE">>},
        eyes_rig \in {<< >>, << EyeDict(<<"EyeL">>, "X", "Z") >>} }

\* CharacterMetadata(**json.load(f)) for the metadata.json of an export
ReloadExportedMetadata(metadata) ==
    /\ tv.pc = "idle"
    /\ tv' = [tv EXCEPT !.pc = "reloaded", !.cls = "CharacterMetadata",
                        !.input = json_load_dump(metadata),
                        !.result = dataclass_init("CharacterMetadata", json_load_dump(metadata))]
    /\ UNCHANGED <<bpy_data, validator_properties, bone_selector_collection, files, last_run, edits>>

\* the values given to a vector field: None, or a list of floats
VectorValues == {PyNone} \cup {Floats(n) : n \in 0..MaxVectorLen}

\* keyword arguments of a material record: its vector fields are None except
\* the two fields f and g
MaterialKwargs(cls, f, v, g, w) ==
    PyDict([i \in 1..Len(annotations(cls)) |->
        LET name == annotations(cls)[i].name
        IN  Item(name, CASE name = "material_name" -> PyStr(<<"Skin">>)
                         [] name = "material_type" -> PyStr(<<"surface">>)
                         [] name = f -> v
                         [] name = g -> w
                         [] OTHER -> PyNone)])

\* MetadataMaterialSurface(**kwargs), MetadataMaterialFlat(**kwargs),
\* MetadataMaterialHair(**kwargs)
MetadataMaterial(cls, kwargs) ==
    /\ tv.pc = "idle"
    /\ tv' = [tv EXCEPT !.pc = "done", !.cls = cls, !.input = kwargs,
                        !.result = dataclass_init(cls, kwargs)]
    /\ UNCHANGED <<bpy_data, validator_properties, bone_selector_collection, files, last_run, edits>>

InitTypeValidator ==
    /\ bpy_data = InitialScene(<<"Rig", "_", "BODY">>, OneMaterial)
    /\ files = [main |-> bpy_data, backup |-> {}, export |-> {}]
    /\ validator_properties = InitialProperties
    /\ bone_selector_collection = [registered |-> FALSE, bone_name |-> [r \in BoneRoles |-> NoName]]
    /\ last_run = NoRun
    /\ edits = 0
    /\ tv = TvIdle

NextTypeValidator ==
    \/ \E kwargs \in RawMetadata : CharacterMetadata(kwargs)
    \/ CharacterMetadataAgain
    \/ \E metadata \in ExportedMetadata : ReloadExportedMetadata(metadata)
    \/ \E cls \in MaterialClasses :
          \E i, j \in 1..Len(vector_3_values(cls)) : \E v, w \in VectorValues :
              MetadataMaterial(cls, MaterialKwargs(cls, vector_3_values(cls)[i], v,
                                                   vector_3_values(cls)[j], w))

SpecTypeValidator == InitTypeValidator /\ [][NextTypeValidator]_vars

(***************************************************************************)
(* Armatures of other shapes and bone names, the bone selectors set by     *)
(* hand, and the bone checks applied to what the selectors hold.           *)
(***************************************************************************)
\* the bones of the armature, in the order of armature.pose.bones
with_rig(data, bone_order, parent) ==
    [data EXCEPT !.bone_order = bone_order,
                 !.bones = [b \in {bone_order[i] : i \in 1..Len(bone_order)} |->
                               [use_connect |-> FALSE, use_local_location |-> TRUE,
                                rotation_mode |-> "XYZ", parent |-> parent[b]]]]

\* every parent assignment of the three bones without a cycle
Hierarchies ==
    {p \in [BoneIds -> BoneIds \cup {NoName}] :
        \A b \in BoneIds : /\ p[b] # b
                           /\ p[b] # NoName => /\ p[p[b]] # b
                                               /\ p[p[b]] # NoName => p[p[p[b]]] # b}

\* a chain: every bone is the child of the bone before it
Chain(bone_order) ==
    [b \in {bone_order[i] : i \in 1..Len(bone_order)} |->
        IF b = bone_order[1] THEN NoName
        ELSE bone_order[(CHOOSE i \in 1..Len(bone_order) : bone_order[i] = b) - 1]]

BoneNamings ==
    { << <<"a", ":", "Hips">>, <<"a", ":", "LeftArm">>, <<"a", ":", "LeftHand">> >>,
      << <<"pelvis">>, <<"upperarm_l">>, <<"hand_l">> >>,
      << <<"LeftArm">>, <<"Hips">>, <<"LeftHand">> >>,
      << <<"Hips">>, <<"pelvis">>, <<"hand_l">> >>,
      << <<"pelvis">>, <<"Hips">>, <<"LeftHand">> >>,
      << <<"a", ":", "Hips">>, <<"Hips">>, <<"LeftArm">> >>,
      << <<"root">>, <<"arm">>, <<"hand">> >> }

Rigs ==
    {with_rig(InitialScene(<<"Rig", "_", "BODY">>, OneMaterial),
              << <<"Hips">>, <<"LeftArm">>, <<"LeftHand">> >>, p) : p \in Hierarchies}
    \cup {with_rig(InitialScene(<<"Rig", "_", "BODY">>, OneMaterial), n, Chain(n)) : n \in BoneNamings}

InitRig ==
    /\ \E rig \in Rigs :
          /\ bpy_data = rig
          /\ files = [main |-> rig, backup |-> {}, export |-> {}]
    /\ validator_properties = InitialProperties
    /\ bone_selector_collection = [registered |-> FALSE, bone_name |-> [r \in BoneRoles |-> NoName]]
    /\ last_run = NoRun
    /\ edits = 0
    /\ tv = TvIdle

\* the user picks a bone of the armature, or nothing, in the selector of a role
AssignBone(r, b) ==
    /\ bone_selector_collection.registered
    /\ bone_selector_collection.bone_name[r] # b
    /\ bone_selector_collection' = [bone_selector_collection EXCEPT !.bone_name[r] = b]
    /\ last_run' = NoRun
    /\ UNCHANGED <<bpy_data, validator_properties, files, edits, tv>>

\* check_duplicate_assigned_bones on the bone names the selectors give the metadata
check_duplicate_assigned_bones_call ==
    LET bones_dict == write_bone_names(validator_properties.metadata,
                                       bone_selector_collection).body.bone_names
    IN  /\ last_run' = Observed("check_duplicate_assigned_bones", "none", "none", {},
                                check_duplicate_assigned_bones(bones_dict), {}, "none", 0)
        /\ UNCHANGED <<bpy_data, validator_properties, bone_selector_collection, files, edits, tv>>

\* ValidatorWarningMissingIKChains on the bone names the selectors give the metadata
ValidatorWarningMissingIKChains_call ==
    LET metadata == write_bone_names(validator_properties.metadata, bone_selector_collection)
    IN  \E w \in {ValidatorWarningMissingIKChains(metadata, bpy_data)} :
        /\ last_run' = Observed("ValidatorWarningMissingIKChains", "none",
                                IF w.raised THEN "RAISED" ELSE "none", {}, << >>,
                                IF w.raised THEN {} ELSE {w.entry}, "none", 0)
        /\ UNCHANGED <<bpy_data, validator_properties, bone_selector_collection, files, edits, tv>>

NextRig ==
    \/ \E o \in ObjIds : GrabSelectedArmOperator(o)
    \/ AutoAssignBones
    \/ \E r \in BoneRoles, b \in DOMAIN bpy_data.bones \cup {NoName} : AssignBone(r, b)
    \/ check_duplicate_assigned_bones_call
    \/ ValidatorWarningMissingIKChains_call

SpecRig == InitRig /\ [][NextRig]_vars

(***************************************************************************)
(* The eye rigs: AddEyeBone and RemoveEyeBone on an armature with two eye  *)
(* bones.                                                                  *)
(***************************************************************************)
\* a check that lets equal axes through
add_eye_bone_checks_any_axes(metadata, eye_bone_name, eye_horizontal_axis, eye_vertical_axis) ==
    LET registered_eye_bones == {metadata.eyes_rig[i].bone_name : i \in 1..Len(metadata.eyes_rig)}
        pose_bones == {metadata.body.bone_names[r] : r \in BoneRoles}
    IN  IF eye_bone_name \in registered_eye_bones THEN "ADD_EYE_BONE_REGISTERED"
        ELSE IF eye_bone_name \in pose_bones THEN "ADD_EYE_BONE_REGISTERED_AS_POSE"
        ELSE "none"

\* the three checks of AddEyeBone.execute: the text_static message of the
\* first one that rejects the bone, "none" when all let it through
add_eye_bone_checks(metadata, eye_bone_name, eye_horizontal_axis, eye_vertical_axis) ==
    LET registered_eye_bones == {metadata.eyes_rig[i].bone_name : i \in 1..Len(metadata.eyes_rig)}
        pose_bones == {metadata.body.bone_names[r] : r \in BoneRoles}
    IN  IF eye_bone_name \in registered_eye_bones THEN "ADD_EYE_BONE_REGISTERED"
        ELSE IF eye_bone_name \in pose_bones THEN "ADD_EYE_BONE_REGISTERED_AS_POSE"
        ELSE IF eye_horizontal_axis = eye_vertical_axis THEN "ADD_EYE_BONE_SAME_AXIS"
        ELSE "none"

\* AddEyeBone.execute on the eye bone name and the two axes the user has set;
\* the look-up of the pose bone raises KeyError for a name that is no bone
\* of the target armature.  The record of the run keeps the entry offered.
AddEyeBone(eye_bone_name, eye_horizontal_axis, eye_vertical_axis) ==
    LET vp == validator_properties
        add_eye == EyeDict(eye_bone_name, eye_horizontal_axis, eye_vertical_axis)
        rejected == add_eye_bone_checks(vp.metadata, eye_bone_name,
                                        eye_horizontal_axis, eye_vertical_axis)
    IN  /\ eye_bone_name # NoName
        /\ UNCHANGED <<bpy_data, bone_selector_collection, files, edits, tv>>
        /\ IF rejected # "none"
           THEN /\ validator_properties' = vp
                /\ last_run' = Observed("AddEyeBone", rejected, "CANCELLED", {}, <<add_eye>>, {},
                                        "none", 0)
           ELSE IF \/ objects_get(bpy_data, vp.target_arm) = NoObject
                   \/ eye_bone_name \notin DOMAIN bpy_data.bones
           THEN /\ validator_properties' = vp
                /\ last_run' = Observed("AddEyeBone", "none", "RAISED", {}, <<add_eye>>, {},
                                        "none", 0)
           ELSE /\ validator_properties' = [vp EXCEPT !.metadata.eyes_rig = Append(@, add_eye)]
                /\ last_run' = Observed("AddEyeBone", "none", "FINISHED", {}, <<add_eye>>, {},
                                        "none", 0)

\* RemoveEyeBone.execute: eyes_rig.pop(index), index of an entry of the panel
RemoveEyeBone(index) ==
    /\ index \in 1..Len(validator_properties.metadata.eyes_rig)
    /\ validator_properties' =
          [validator_properties EXCEPT !.metadata.eyes_rig =
              [i \in 1..(Len(@) - 1) |-> IF i < index THEN @[i] ELSE @[i + 1]]]
    /\ last_run' = Observed("RemoveEyeBone", "none", "FINISHED", {}, << >>, {}, "none", 0)
    /\ UNCHANGED <<bpy_data, bone_selector_collection, files, edits, tv>>

EyeBoneOrder == << <<"Hips">>, <<"LeftArm">>, <<"EyeL">>, <<"EyeR">> >>

\* the names the user puts into the Eye Bone Name field
EyeBoneNames == {<<"EyeL">>, <<"EyeR">>, <<"LeftArm">>, <<"Ghost">>}

AxisPairs == {<<"X", "Z">>, <<"Z", "Y">>, <<"X", "X">>}

InitEyeRig ==
    /\ \E rig \in {with_rig(InitialScene(<<"Rig", "_", "BODY">>, OneMaterial),
                             EyeBoneOrder, Chain(EyeBoneOrder))} :
          /\ bpy_data = rig
          /\ files = [main |-> rig, backup |-> {}, export |-> {}]
    /\ validator_properties = InitialProperties
    /\ bone_selector_collection = [registered |-> FALSE, bone_name |-> [r \in BoneRoles |-> NoName]]
    /\ last_run = NoRun
    /\ edits = 0
    /\ tv = TvIdle

NextEyeRig ==
    \/ \E o \in ObjIds : GrabSelectedArmOperator(o)
    \/ \E o \in ObjIds : GrabSelectedMeshOperator(o)
    \/ AutoAssignBones
    \/ ValidateCharacter
    \/ \E eye_bone_name \in EyeBoneNames, axes \in AxisPairs :
          AddEyeBone(eye_bone_name, axes[1], axes[2])
    \/ \E index \in 1..Len(EyeBoneOrder) : RemoveEyeBone(index)

SpecEyeRig == InitEyeRig /\ [][NextEyeRig]_vars

(***************************************************************************)
(* Properties of the pipeline.  After a run of validate_character the      *)
(* scene and the metadata are the ones the run read, so the stages can be  *)
(* evaluated again on them and compared with what the run did.             *)
(***************************************************************************)
ValidateRan ==
    /\ last_run.op \in {"validate_character", "ValidateCharacter"}
    /\ last_run.call # "none"

MetadataNow == ValidatorMetadata(validator_properties.metadata, CurrentAddonVersion)
CleanupNow == ValidatorCleanup(validator_properties.metadata, bpy_data)
RequirementNow == ValidatorRequirement(validator_properties.metadata, bpy_data)
WarningNow ==
    ValidatorWarning(validator_properties.metadata, validator_properties.toggle_usd, bpy_data)

Passes(stage) == ~stage.raised /\ ~Failing(stage.report)

CleanupReportKeys == CleanupKeys \ {"transforms_check"}

\* C1: validate_character returns the tag of the first stage, in the order
\* Metadata, Cleanup, Requirement, Warning, whose report has an entry with
\* check false.
C1_FirstFailingStageTag ==
    ValidateRan =>
        IF Failing(MetadataNow.report) THEN last_run.call = "metadata"
        ELSE IF CleanupNow.raised THEN TRUE
        ELSE IF Failing(CleanupNow.report) THEN last_run.call = "cleanup"
        ELSE IF RequirementNow.raised THEN TRUE
        ELSE IF Failing(RequirementNow.report) THEN last_run.call = "fail"
        ELSE IF WarningNow.raised THEN TRUE
        ELSE IF Failing(WarningNow.report) THEN last_run.call = "warning"
        ELSE TRUE

\* C2: a stage is evaluated only if every earlier stage was evaluated and its
\* report has no failing entry; when the Metadata stage fails, only it is
\* evaluated and the Cleanup, Requirement and Warning reports are stored empty.
C2_StageOnlyAfterEarlierPass ==
    ValidateRan =>
        /\ "metadata" \in last_run.evaluated
        /\ "cleanup" \in last_run.evaluated => Passes(MetadataNow)
        /\ "requirement" \in last_run.evaluated =>
              "cleanup" \in last_run.evaluated /\ Passes(CleanupNow)
        /\ "warning" \in last_run.evaluated =>
              "requirement" \in last_run.evaluated /\ Passes(RequirementNow)
        /\ Failing(MetadataNow.report) =>
              /\ last_run.evaluated = {"metadata"}
              /\ validator_properties.validation_cleanup_messages = {}
              /\ validator_properties.validation_fail_messages = {}
              /\ validator_properties.validation_warning_messages = {}

\* a run stopped by a failing Metadata stage although the scene has something
\* the Cleanup stage would report
C2_Witness ==
    /\ ValidateRan
    /\ last_run.call = "metadata"
    /\ Failing(validator_properties.validation_metadata_message)
    /\ \E n \in all_names(bpy_data) : HasDot(n)

\* C3: when Metadata, Cleanup and Requirement all pass, validate_character
\* evaluates the Warning stage, stores its report, and returns 'warning' if
\* an entry of it fails and 'clean' otherwise.
C3_WarningStageDecides ==
    (/\ ValidateRan
     /\ Passes(MetadataNow) /\ Passes(CleanupNow) /\ Passes(RequirementNow)
     /\ ~WarningNow.raised)
    => /\ "warning" \in last_run.evaluated
       /\ validator_properties.validation_warning_messages = WarningNow.report
       /\ last_run.call = IF Failing(WarningNow.report) THEN "warning" ELSE "clean"

C5_MutationOnlyForFailingEntry ==
    last_run.op = "CleanupCharacter" =>
        /\ \A i \in 1..Len(last_run.applied) :
              last_run.applied[i] \in FailingKeys(last_run.report)
        /\ last_run.returned = "FINISHED" =>
              \A k \in FailingKeys(last_run.report) :
                 Cardinality({i \in 1..Len(last_run.applied) : last_run.applied[i] = k}) = 1

\* C6: cleanup_character skips every key absent from the stored report and
\* does not raise for it: with an empty report it applies no mutation and
\* finishes, and the mutation of 'transforms_check' is never applied.
C6_AbsentKeysSkipped ==
    /\ bpy_data.transforms_applied = FALSE
    /\ last_run.op = "CleanupCharacter" =>
          /\ \A i \in 1..Len(last_run.applied) : last_run.applied[i] \in Keys(last_run.report)
          /\ \A i \in 1..Len(last_run.applied) : last_run.applied[i] # "transforms_check"
          /\ last_run.report = {} =>
                /\ last_run.applied = << >>
                /\ last_run.returned = "FINISHED"
                /\ files.main = bpy_data

\* CleanupCharacter ran with an empty report on a scene that has a name with
\* a dot, and the name is still there
C6_Witness ==
    /\ last_run.op = "CleanupCharacter"
    /\ last_run.report = {}
    /\ last_run.returned = "FINISHED"
    /\ \E n \in all_names(bpy_data) : HasDot(n)

\* C8: after validate_character returned 'cleanup' and cleanup_character ran,
\* with nothing else in between, the Cleanup stage evaluates all its rules on
\* the scene and the metadata and reports no failing entry, and the armature
\* is in POSE position.
C8_CleanupStagePassesAfterCleanup ==
    (last_run.op = "CleanupCharacter" /\ last_run.chain = 2) =>
        /\ ~CleanupNow.raised
        /\ Keys(CleanupNow.report) = CleanupReportKeys
        /\ ~Failing(CleanupNow.report)
        /\ bpy_data.armatures["arm"].pose_position = "POSE"

\* C9: rules are collected, not fail-fast: the stored Cleanup report of a run
\* that passed the Metadata stage is the entry of each of the seven rules,
\* and the stored Requirement report has an entry for each of its rules.
C9_RulesCollected ==
    /\ validator_properties.validation_cleanup_messages # {} =>
          /\ Keys(validator_properties.validation_cleanup_messages) = CleanupReportKeys
          /\ Cardinality(validator_properties.validation_cleanup_messages) = 7
    /\ (ValidateRan /\ "cleanup" \in last_run.evaluated /\ ~CleanupNow.raised) =>
          validator_properties.validation_cleanup_messages =
             { ValidatorCleanupTextFiles(bpy_data).entry,
               ValidatorCleanupArmaturePosePosition(validator_properties.metadata, bpy_data).entry,
               ValidatorCleanupHipsBoneRelations(validator_properties.metadata, bpy_data).entry,
               ValidatorCleanupBoneRotationMode(validator_properties.metadata, bpy_data).entry,
               ValidatorCleanupAutoSmooth(bpy_data).entry,
               ValidatorCleanupObjectNaming(bpy_data).entry,
               ValidatorCleanupCurvesGeoNodes(bpy_data).entry }
    /\ (ValidateRan /\ "requirement" \in last_run.evaluated /\ ~RequirementNow.raised) =>
          /\ Keys(validator_properties.validation_fail_messages) = Keys(RequirementNow.report)
          /\ Cardinality(validator_properties.validation_fail_messages) =
                IF validator_properties.metadata.face.mesh_name # NoName THEN 9 ELSE 6

\* a Cleanup report in which the first rule failed and a later rule failed too
C9_Witness ==
    /\ ValidateRan
    /\ last_run.call = "cleanup"
    /\ {"text_files_check", "syntax_check"}
          \subseteq FailingKeys(validator_properties.validation_cleanup_messages)
    /\ Cardinality(validator_properties.validation_cleanup_messages) = 7

\* C7: the cleanup mutations of the failing rules commute: applied in any
\* order they complete without an exception, and once all are applied the
\* scene is the one cleanup_character leaves.
C7_MutationsCommute ==
    last_run.op = "cleanup" =>
        /\ last_run.returned # "RAISED"
        /\ {last_run.applied[i] : i \in 1..Len(last_run.applied)}
              = FailingKeys(validator_properties.validation_cleanup_messages)
           => bpy_data = cleanup_character_mutations(
                            validator_properties.validation_cleanup_messages,
                            validator_properties.metadata, files.main).data

\* C10: whenever a union-typed list element or field holds a value that is
\* not None and is of none of the member types (for record members: neither
\* a mapping nor an instance of a member record), construction is refused.
C10_UnionRejectsNonMember ==
    tv.pc = "done" =>
        LET materials == getattr(tv.input, "materials")
            face == getattr(tv.input, "face")
        IN  /\ (/\ materials.kind = "list"
                /\ \E i \in 1..Len(materials.items) :
                      materials.items[i].value.kind \notin {"NoneType", "dict"} \cup MaterialClasses)
               => tv.result.exc # "none"
            /\ (face.kind = "dict" /\ getattr(face, "mesh_name").kind \notin {"NoneType", "str"})
               => tv.result.exc # "none"

(***************************************************************************)
(* Properties of the metadata records.                                     *)
(***************************************************************************)
\* a CharacterMetadata(**kwargs) call has returned or raised
Constructed == tv.pc # "idle" /\ tv.cls = "CharacterMetadata"

\* the keys of a mapping, the attribute names of a record, the names of a
\* record class's annotations
FieldNames(value) == {value.items[i].name : i \in 1..Len(value.items)}

\* every element of the list is a raw mapping
RawMappings(list) == list.kind = "list" /\ \A i \in 1..Len(list.items) : list.items[i].value.kind = "dict"

\* C11: a list-typed field fails when the value is not a list; when
\* CharacterMetadata is constructed from raw mappings the materials and
\* eyes_rig attributes are lists of the original length whose elements are
\* typed records, the i-th one built from the i-th mapping.
C11_ListElementsCoerced ==
    Constructed =>
        /\ (\E f \in {"materials", "eyes_rig"} : getattr(tv.input, f).kind # "list")
              => tv.result.exc # "none"
        /\ (/\ tv.result.exc = "none"
            /\ RawMappings(getattr(tv.input, "materials"))
            /\ RawMappings(getattr(tv.input, "eyes_rig")))
              => /\ \A f \in {"materials", "eyes_rig"} :
                      /\ getattr(tv.result.value, f).kind = "list"
                      /\ Len(getattr(tv.result.value, f).items) = Len(getattr(tv.input, f).items)
                 /\ \A i \in 1..Len(getattr(tv.input, "materials").items) :
                      /\ getattr(tv.result.value, "materials").items[i].value.kind \in MaterialClasses
                      /\ getattr(getattr(tv.result.value, "materials").items[i].value, "material_name")
                            = getattr(getattr(tv.input, "materials").items[i].value, "material_name")
                 /\ \A i \in 1..Len(getattr(tv.input, "eyes_rig").items) :
                      getattr(tv.result.value, "eyes_rig").items[i].value.kind = "MetadataEyeRig"

\* the vector fields of the material record that were given a list of a
\* length other than 3
WrongVectors ==
    {i \in 1..Len(vector_3_values(tv.cls)) :
        /\ getattr(tv.input, vector_3_values(tv.cls)[i]).kind = "list"
        /\ Len(getattr(tv.input, vector_3_values(tv.cls)[i]).items) # 3}

\* C12: constructing a material record (surface, flat or hair) with a
\* 3-component vector field holding a list whose length is not 3 raises a
\* ValueError whose message names such a field; when every vector field is
\* None or a list of 3 floats the record is accepted.
C12_VectorLengthValueError ==
    (tv.pc = "done" /\ tv.cls \in MaterialClasses) =>
        IF WrongVectors = {}
        THEN tv.result.exc = "none" /\ tv.result.value.kind = tv.cls
        ELSE /\ tv.result.exc = "ValueError"
             /\ \E i \in WrongVectors : tv.result.value.text[2] = vector_3_values(tv.cls)[i]

\* a surface material whose last vector field alone has 2 components was
\* refused with a message naming that field
C12_Witness ==
    /\ tv.pc = "done" /\ tv.cls = "MetadataMaterialSurface"
    /\ WrongVectors = {8}
    /\ Len(getattr(tv.input, "opacity_value").items) = 2
    /\ getattr(tv.input, "diffuse_value") = PyNone
    /\ tv.result.exc = "ValueError"
    /\ tv.result.value.text[2] = "opacity_value"

\* the raw metadata given to CharacterMetadata is valid: a version X.Y.Z,
\* materials and eye rigs that are well-formed mappings, a body with its
\* armature and Hips named, a face whose mesh name is None or a string
ValidRaw ==
    /\ getattr(tv.input, "version").text = CurrentAddonVersion
    /\ RawMappings(getattr(tv.input, "materials"))
    /\ \A i \in 1..Len(getattr(tv.input, "materials").items) :
          LET material == getattr(tv.input, "materials").items[i].value
          IN  \/ \E emission_value \in {PyNone, Floats(3)} :
                    material.items = MaterialFlat(PyStr(<<"Skin">>), PyStr(<<"flat">>), emission_value)
              \/ {material.items[j].name : j \in 1..Len(material.items)}
                    = {"material_name", "material_type", "diffuse_value", "melanin_value"}
    /\ RawMappings(getattr(tv.input, "eyes_rig"))
    /\ \A i \in 1..Len(getattr(tv.input, "eyes_rig").items) :
          getattr(tv.input, "eyes_rig").items[i].value = EyeRig(<<"EyeL">>, "X", "Z")
    /\ getattr(tv.input, "body").kind = "dict"
    /\ getattr(getattr(tv.input, "body"), "armature_name").kind = "str"
    /\ getattr(getattr(tv.input, "body"), "bone_names").kind = "dict"
    /\ getattr(getattr(tv.input, "face"), "mesh_name").kind \in {"str", "NoneType"}
    /\ FieldNames(getattr(getattr(tv.input, "face"), "blendshape_names"))
          = FieldNames(Value("", << >>, annotations("MetadataFaceBlendshapes")))

\* C13: constructing CharacterMetadata from valid raw metadata succeeds, and
\* constructing it again from the fields of the returned record succeeds and
\* returns a record equal to the first one in every field.
C13_ValidationIdempotent ==
    /\ (Constructed /\ ValidRaw) => tv.result.exc = "none"
    /\ (tv.pc = "again" /\ ValidRaw) =>
          /\ tv.again.exc = "none"
          /\ tv.again.value = tv.result.value

\* valid raw metadata with a material, an eye rig, a body and a face was
\* validated twice
C13_Witness ==
    /\ tv.pc = "again" /\ ValidRaw
    /\ Len(getattr(tv.input, "materials").items) > 0
    /\ Len(getattr(tv.input, "eyes_rig").items) > 0
    /\ getattr(tv.result.value, "body").kind = "MetadataBody"
    /\ getattr(getattr(tv.result.value, "body"), "bone_names").kind = "MetadataBodyBones"
    /\ tv.again.value = tv.result.value

\* C14: the metadata the add-on exports, re-loaded from metadata.json and
\* given to CharacterMetadata, validates without error; the exported
\* bone_names and blendshape_names key sets are exactly the field sets of
\* MetadataBodyBones and MetadataFaceBlendshapes.
C14_ExportRoundTrip ==
    tv.pc = "reloaded" =>
        /\ getattr(getattr(tv.input, "body"), "armature_name").kind = "str"
        /\ getattr(getattr(getattr(tv.input, "body"), "bone_names"), "Hips").kind = "str"
        /\ FieldNames(getattr(getattr(tv.input, "body"), "bone_names"))
              = FieldNames(Value("", << >>, annotations("MetadataBodyBones")))
        /\ FieldNames(getattr(getattr(tv.input, "face"), "blendshape_names"))
              = FieldNames(Value("", << >>, annotations("MetadataFaceBlendshapes")))
        /\ tv.result.exc = "none"

(***************************************************************************)
(* Properties of the bone checks.                                          *)
(***************************************************************************)
\* the bone names the selectors give the metadata
AssignedBones ==
    write_bone_names(validator_properties.metadata, bone_selector_collection).body.bone_names

\* C15: check_duplicate_assigned_bones returns exactly the values other than
\* None that more than one role holds, each of them once, and never None.
C15_DuplicatesListedOnce ==
    last_run.op = "check_duplicate_assigned_bones" =>
        LET duplicates == last_run.applied
            repeated == {b \in {AssignedBones[r] : r \in BoneRoles} \ {NoName} :
                            Cardinality({r \in BoneRoles : AssignedBones[r] = b}) > 1}
        IN  /\ {duplicates[i] : i \in 1..Len(duplicates)} = repeated
            /\ \A i, j \in 1..Len(duplicates) : duplicates[i] = duplicates[j] => i = j
            /\ \A i \in 1..Len(duplicates) : duplicates[i] # NoName

\* one bone held by three roles is listed once
C15_Witness ==
    /\ last_run.op = "check_duplicate_assigned_bones"
    /\ \A r \in BoneRoles : AssignedBones[r] = <<"LeftArm">>
    /\ last_run.applied = << <<"LeftArm">> >>

\* the bones met by following the parent links upwards from bone b
ProperAncestors(data, b) ==
    LET n == Cardinality(DOMAIN data.bones)
        up[k \in 0..n] ==
            IF k = 0 THEN {}
            ELSE up[k - 1] \cup ({data.bones[x].parent : x \in up[k - 1] \cup {b}} \ {NoName})
    IN  up[n]

\* C16: on every bone hierarchy check_ik_chain returns a value, and the value
\* is True exactly when the root bone is met by walking the parent links up
\* from the target bone; the limb pair is reported missing exactly when one
\* of its two bones is unassigned or that walk does not meet the root.
C16_IkChainIsAncestorWalk ==
    /\ validator_properties.metadata.body.armature_name # NoName =>
           \A root, target \in DOMAIN bpy_data.bones :
               LET c == check_ik_chain(bpy_data, validator_properties.metadata.body.armature_name,
                                       root, target)
               IN  ~c.raised /\ (c.value <=> root \in ProperAncestors(bpy_data, target))
    /\ last_run.op = "ValidatorWarningMissingIKChains" =>
           /\ last_run.returned # "RAISED"
           /\ \A e \in last_run.report :
                  /\ e.key = "missing_ik_chains_check"
                  /\ ~e.check <=>
                         \/ AssignedBones["LeftArm"] = NoName
                         \/ AssignedBones["LeftHand"] = NoName
                         \/ AssignedBones["LeftArm"] \notin
                                ProperAncestors(bpy_data, AssignedBones["LeftHand"])

\* the root is met two links above the target and the pair is not reported
C16_Witness ==
    /\ last_run.op = "ValidatorWarningMissingIKChains"
    /\ AssignedBones["LeftArm"] = <<"Hips">>
    /\ AssignedBones["LeftHand"] = <<"LeftHand">>
    /\ bpy_data.bones[<<"LeftHand">>].parent = <<"LeftArm">>
    /\ bpy_data.bones[<<"LeftArm">>].parent = <<"Hips">>
    /\ \E e \in last_run.report : e.check

(***************************************************************************)
(* Properties of the Requirement rules.                                    *)
(***************************************************************************)
\* the polygons of the mesh objects of the scene
PolygonTotal == SumOver(bpy_data.polygons, {o \in ObjIds : bpy_data.objects[o].type = "MESH"})

\* C17: the poly_count_check entry passes exactly when the polygon total of
\* the mesh objects is at most 1,500,000; when it fails in a run whose
\* Metadata and Cleanup stages passed, validate_character returns 'fail'
\* and stores the failing entry.
C17_PolyCountAtMostLimit ==
    /\ ValidatorRequirementPolyCount(bpy_data).entry.check <=> PolygonTotal <= 1500000
    /\ (/\ ValidateRan
        /\ Passes(MetadataNow) /\ Passes(CleanupNow)
        /\ PolygonTotal > 1500000)
       => /\ last_run.call = "fail"
          /\ \E e \in validator_properties.validation_fail_messages :
                 e.key = "poly_count_check" /\ ~e.check

\* a run on 1,500,001 polygons in which poly_count_check is the only failing entry
C17_Witness ==
    /\ ValidateRan
    /\ PolygonTotal = 1500001
    /\ last_run.call = "fail"
    /\ FailingKeys(validator_properties.validation_fail_messages) = {"poly_count_check"}

\* a run on exactly 1,500,000 polygons that passes the Requirement stage
C17_WitnessAtLimit ==
    /\ ValidateRan
    /\ PolygonTotal = 1500000
    /\ "requirement" \in last_run.evaluated
    /\ ~Failing(validator_properties.validation_fail_messages)

\* the armature objects of the scene whose name ends with the tag 'BODY'
BodyArmatures ==
    {o \in ObjIds : /\ bpy_data.objects[o].type = "ARMATURE"
                    /\ endswith(bpy_data.objects[o].name, "BODY")}

\* C18: the one_body_armature_check entry of a run passes exactly when the
\* scene has exactly one armature object whose name ends with 'BODY'; it
\* fails when there are several and when there is none.
C18_ExactlyOneBodyArmature ==
    (ValidateRan /\ "requirement" \in last_run.evaluated) =>
        \A e \in validator_properties.validation_fail_messages :
            e.key = "one_body_armature_check" => (e.check <=> Cardinality(BodyArmatures) = 1)

(***************************************************************************)
(* Properties of the automatic bone assignment.                            *)
(***************************************************************************)
\* the bones of the armature whose name, after the prefix up to the last
\* colon is dropped, is the given entry of a convention
BonesNamed(entry) ==
    {k \in 1..Len(bpy_data.bone_order) : split_colon_last(bpy_data.bone_order[k]) = <<entry>>}

\* what AutoAssignBones has left when `matching` are the conventions that
\* match the armature: without armature or match an error and the selectors
\* as they were, else the selectors filled after the first matching convention
AutoAssignedBy(matching) ==
    IF objects_get(bpy_data, validator_properties.target_arm) = NoObject \/ matching = {}
    THEN /\ last_run.call = "ERROR"
         /\ bone_selector_collection.bone_name = last_run.before.bone_name
    ELSE LET convention == CHOOSE c \in matching : \A d \in matching : c <= d
         IN  /\ last_run.call = "INFO"
             /\ \A i \in 1..Len(standard_bone_names) :
                    LET named == BonesNamed(all_supported_bone_names[convention][i])
                        selected == bone_selector_collection.bone_name[standard_bone_names[i]]
                    IN  IF named = {} THEN selected = NoName
                        ELSE \E k \in named : /\ selected = bpy_data.bone_order[k]
                                                /\ \A l \in named : l <= k

\* C19 as stated: the convention is the first one, in declaration order,
\* whose first entry is the name of the first bone of the armature after
\* the colon prefix is dropped; without a match an error is reported and
\* the selectors stay as they were.
C19_ConventionByFirstBone ==
    last_run.op = "AutoAssignBones" =>
        AutoAssignedBy({c \in 1..Len(all_supported_bone_names) :
                           1 \in BonesNamed(all_supported_bone_names[c][1])})

\* C19 as the code has it: the convention is the first one, in declaration
\* order, whose first entry is the name of some bone of the armature after
\* the colon prefix is dropped; without a match an error is reported and
\* the selectors stay as they were.
C19_ConventionBySomeBone ==
    last_run.op = "AutoAssignBones" =>
        AutoAssignedBy({c \in 1..Len(all_supported_bone_names) :
                           BonesNamed(all_supported_bone_names[c][1]) # {}})

\* both conventions match, the first bone is the first entry of the second
\* convention, and the selectors are filled after the first convention
C19_Witness ==
    /\ last_run.op = "AutoAssignBones"
    /\ last_run.call = "INFO"
    /\ bpy_data.bone_order = << <<"pelvis">>, <<"Hips">>, <<"LeftHand">> >>
    /\ bone_selector_collection.bone_name["Hips"] = <<"Hips">>
    /\ bone_selector_collection.bone_name["LeftArm"] = NoName
    /\ bone_selector_collection.bone_name["LeftHand"] = <<"LeftHand">>

(***************************************************************************)
(* Properties of the eye rigs.                                             *)
(***************************************************************************)
EyesRig == validator_properties.metadata.eyes_rig

\* C20: every entry of eyes_rig has two axes among X, Y, Z that differ, no
\* two entries have the same bone name, and an AddEyeBone that rejects the
\* bone (registered already, a pose bone of the metadata, or equal axes)
\* returns CANCELLED and leaves eyes_rig as it was.
C20_EyesRigWellFormed ==
    /\ \A i \in 1..Len(EyesRig) :
           /\ EyesRig[i].horizontal_rotation_axis \in {"X", "Y", "Z"}
           /\ EyesRig[i].vertical_rotation_axis \in {"X", "Y", "Z"}
           /\ EyesRig[i].horizontal_rotation_axis # EyesRig[i].vertical_rotation_axis
    /\ \A i, j \in 1..Len(EyesRig) : EyesRig[i].bone_name = EyesRig[j].bone_name => i = j
    /\ last_run.op = "AddEyeBone" =>
           LET offered == last_run.applied[1]
               rejected ==
                   \/ \E i \in 1..Len(last_run.before.eyes_rig) :
                          last_run.before.eyes_rig[i].bone_name = offered.bone_name
                   \/ \E r \in BoneRoles :
                          validator_properties.metadata.body.bone_names[r] = offered.bone_name
                   \/ offered.horizontal_rotation_axis = offered.vertical_rotation_axis
           IN  /\ rejected <=> last_run.returned = "CANCELLED"
               /\ last_run.returned # "FINISHED" => EyesRig = last_run.before.eyes_rig
               /\ last_run.returned = "FINISHED" => EyesRig = Append(last_run.before.eyes_rig, offered)

\* a bone offered with equal axes is rejected while another eye is registered
C20_Witness ==
    /\ last_run.op = "AddEyeBone"
    /\ last_run.returned = "CANCELLED"
    /\ last_run.call = "ADD_EYE_BONE_SAME_AXIS"
    /\ Len(EyesRig) = 1
    /\ EyesRig = last_run.before.eyes_rig

(***************************************************************************)
(* Properties of the stored reports.                                       *)
(***************************************************************************)
StoredReports ==
    << validator_properties.validation_metadata_message,
       validator_properties.validation_cleanup_messages,
       validator_properties.validation_fail_messages,
       validator_properties.validation_warning_messages >>

\* the message the rule returned: the stored one without the note that
\* validate_character appends to the texture_files_check entry
RuleMessage(e) ==
    IF e.key = "texture_files_check" THEN SubSeq(e.message, 1, Len(e.message) - 1) ELSE e.message

C22_ObjectNamingCleanupLeavesNoDot ==
    (/\ last_run.op = "CleanupCharacter"
     /\ last_run.returned = "FINISHED"
     /\ \E i \in 1..Len(last_run.applied) : last_run.applied[i] = "syntax_check") =>
        /\ \A n \in all_names(bpy_data) : ~HasDot(n)
        /\ ValidatorCleanupObjectNaming(bpy_data).entry.check


\* the ValueErrors of CharacterMetadata.__post_init__ itself
RootValueErrors ==
    { ValueError(<<"Unsupported software type.">>), ValueError(<<"Unsupported version format.">>) }

\* what the type check of each field of the root record gives on its own
FieldChecks(kwargs) ==
    [i \in 1..Len(annotations("CharacterMetadata")) |->
        _check_type(getattr(kwargs, annotations("CharacterMetadata")[i].name),
                    annotations("CharacterMetadata")[i].value)]

FirstRaising(checks) ==
    LET raising == {i \in 1..Len(checks) : checks[i].exc # "none"}
    IN  IF raising = {} THEN 0 ELSE CHOOSE i \in raising : \A j \in raising : i <= j

\* C23 as stated: a construction of CharacterMetadata that raises a
\* ValueError was given an input none of whose fields has a type error.
C23_NoValueErrorWithTypeError ==
    (tv.pc = "done" /\ tv.cls = "CharacterMetadata" /\ tv.result.exc = "ValueError") =>
        \A i \in 1..Len(FieldChecks(tv.input)) : FieldChecks(tv.input)[i].exc # "TypeError"

\* C23: each record tests its value constraints after its own type check:
\* a ValueError of the root record is raised only when the check of every
\* field raised nothing; a ValueError of a nested record is the outcome of
\* the first field whose check raises; and when the first field whose check
\* raises gives a type error, the construction raises TypeError.
C23_ConstraintsAfterOwnTypeCheck ==
    (tv.pc = "done" /\ tv.cls = "CharacterMetadata") =>
        \E checks \in {FieldChecks(tv.input)} :
            \E first \in {FirstRaising(checks)} :
                /\ tv.result \in RootValueErrors => first = 0
                /\ (tv.result.exc = "ValueError" /\ tv.result \notin RootValueErrors) =>
                       first # 0 /\ checks[first] = tv.result
                /\ (first # 0 /\ checks[first].exc = "TypeError") => tv.result.exc = "TypeError"

C23_Witness ==
    /\ tv.pc = "done" /\ tv.cls = "CharacterMetadata"
    /\ tv.result = ValueError(<<"Unsupported version format.">>)
    /\ \E i \in 1..Len(tv.input.items) :
          tv.input.items[i].name = "eyes_rig" /\ tv.input.items[i].value.kind = "list"
                                              /\ Len(tv.input.items[i].value.items) > 0


\* C24: the stages are fail-fast in what they store: whenever a stored
\* report holds a failing entry, the report of every later stage is empty,
\* so at most one of the four stored reports holds a failing entry.
C24_LaterReportsEmpty ==
    /\ \A j, k \in 1..4 : (j < k /\ Failing(StoredReports[j])) => StoredReports[k] = {}
    /\ Cardinality({k \in 1..4 : Failing(StoredReports[k])}) <= 1

C24_Witness ==
    /\ last_run.op = "ValidateCharacter" /\ last_run.call = "fail"
    /\ StoredReports[1] # {} /\ StoredReports[2] # {}
    /\ Failing(StoredReports[3])
    /\ StoredReports[4] = {}


(***************************************************************************)
(* Sessions on an asset whose armature was saved in rest position: the     *)
(* user can put it back in pose position by hand between two runs.         *)
(***************************************************************************)
InitRestPose ==
    /\ \E an \in {<<"Rig", "_", "BODY">>, <<"Rig">>} :
          /\ bpy_data = with_defect(InitialScene(an, OneMaterial), "rest")
          /\ files = [main |-> bpy_data, backup |-> {}, export |-> {}]
    /\ validator_properties = InitialProperties
    /\ bone_selector_collection = [registered |-> FALSE, bone_name |-> [r \in BoneRoles |-> NoName]]
    /\ last_run = NoRun
    /\ edits = 0
    /\ tv = TvIdle

SpecRestPose == InitRestPose /\ [][Next]_vars

\* C25: cleanup_required is true exactly when the stored Cleanup report
\* holds a failing entry, and it is false after a run of validate_character
\* that returned 'metadata', 'fail', 'warning' or 'clean'.
C25_CleanupRequiredIffCleanupFailing ==
    /\ validator_properties.cleanup_required
          <=> Failing(validator_properties.validation_cleanup_messages)
    /\ (ValidateRan /\ last_run.call \in {"metadata", "fail", "warning", "clean"}) =>
          ~validator_properties.cleanup_required


\* one of the six pre-checks of ValidateCharacter.execute fails on the
\* current selections, selectors and eye rig
PreCheckFails ==
    LET target_arm == objects_get(bpy_data, validator_properties.target_arm)
        target_mesh == objects_get(bpy_data, validator_properties.target_mesh)
        bone_name == bone_selector_collection.bone_name
        assigned(r) == bone_selector_collection.registered /\ bone_name[r] # NoName
        eyes_rig == validator_properties.metadata.eyes_rig
    IN  \/ target_arm = NoObject
        \/ bpy_data.objects[target_arm].type # "ARMATURE"
        \/ ~assigned("Hips")
        \/ \E r1, r2 \in BoneRoles : r1 # r2 /\ assigned(r1) /\ bone_name[r1] = bone_name[r2]
        \/ target_mesh # NoObject /\ bpy_data.objects[target_mesh].type # "MESH"
        \/ target_mesh # NoObject /\ bpy_data.shape_keys[target_mesh] = {}
        \/ \E i \in 1..Len(eyes_rig) : \E r \in BoneRoles :
              eyes_rig[i].bone_name =
                 (IF bone_selector_collection.registered THEN bone_name[r] ELSE NoName)

\* C26: a step of ValidateCharacter taken while a pre-check fails returns
\* CANCELLED with no stage evaluated, leaves the four stored reports,
\* validation_status and cleanup_required as they were, and leaves the asset
\* file, its backup and the export directory as they were.
C26_PreCheckFailureChangesNothing ==
    [][(PreCheckFails /\ last_run'.op = "ValidateCharacter" /\ last_run' # last_run) =>
          /\ last_run'.returned = "CANCELLED"
          /\ last_run'.call = "none" /\ last_run'.evaluated = {} /\ last_run'.export = "none"
          /\ validator_properties'.validation_metadata_message = StoredReports[1]
          /\ validator_properties'.validation_cleanup_messages = StoredReports[2]
          /\ validator_properties'.validation_fail_messages = StoredReports[3]
          /\ validator_properties'.validation_warning_messages = StoredReports[4]
          /\ validator_properties'.validation_status = validator_properties.validation_status
          /\ validator_properties'.cleanup_required = validator_properties.cleanup_required
          /\ files' = files]_vars

C26_Witness ==
    /\ PreCheckFails
    /\ last_run.op = "ValidateCharacter" /\ last_run.call = "none"
    /\ last_run.returned = "CANCELLED"
    /\ StoredReports[1] # {}
    /\ files.main # bpy_data


(***************************************************************************)
(* Export: sessions on an asset with texture images and a second mesh      *)
(* object whose shape keys have none of the supported names.               *)
(***************************************************************************)
MaxImages == 2

Image(name, users, packed_file, source, paths) ==
    [name |-> name, users |-> users, packed_file |-> packed_file, source |-> source,
     files |-> paths]

Images ==
    { Image("Skin", TRUE, FALSE, "FILE", <<"skin.png">>),
      Image("Cloth", TRUE, FALSE, "TILED", <<"cloth.1001.png", "cloth.1002.png">>),
      Image("Walk", TRUE, FALSE, "SEQUENCE", <<"walk_01.png", "walk_02.png">>),
      Image("Noise", TRUE, FALSE, "GENERATED", << >>),
      Image("Clip", TRUE, FALSE, "MOVIE", << >>),
      Image("Logo", TRUE, TRUE, "FILE", <<"logo.png">>),
      Image("Old", FALSE, FALSE, "FILE", <<"old.png">>),
      Image("Render Result", TRUE, FALSE, "VIEWER", << >>) }

\* bpy.data.images: image names are unique
ImageLists ==
    {l \in UNION {[1..n -> Images] : n \in 0..MaxImages} :
        \A i, j \in 1..Len(l) : i # j => l[i].name # l[j].name}

InitExport ==
    /\ \E images \in ImageLists :
          /\ bpy_data = [InitialScene(<<"Rig", "_", "BODY">>, OneMaterial) EXCEPT
                            !.images = images,
                            !.objects["hair"].type = "MESH",
                            !.shape_keys["hair"] = {<<"Custom">>}]
          /\ files = [main |-> bpy_data, backup |-> {}, export |-> {}]
    /\ validator_properties = InitialProperties
    /\ bone_selector_collection = [registered |-> FALSE, bone_name |-> [r \in BoneRoles |-> NoName]]
    /\ last_run = NoRun
    /\ edits = 0
    /\ tv = TvIdle

\* ExportData(validator_properties.metadata) on the scene as it is: the
\* exception that leaves it, "ok" when none does
ExportData_call ==
    \E t \in {copy_texture_files(bpy_data.images, 1, [bound |-> FALSE, paths |-> << >>], << >>)} :
    \E outcome \in {"FileNotFoundError"} \cup (IF t.raised THEN {"UnboundLocalError"} ELSE {"ok"}) :
        /\ files' = IF outcome = "ok" THEN ExportData(save_file(files, bpy_data),
                                                      validator_properties.metadata)
                    ELSE files
        /\ last_run' = Observed("ExportData", "none", IF outcome = "ok" THEN "none" ELSE "RAISED",
                                {}, t.texture_paths, {}, outcome, 0)
        /\ UNCHANGED <<bpy_data, validator_properties, bone_selector_collection, edits, tv>>

\* ValidateCharacter.execute of a run in which the pre-checks and the
\* Metadata, Cleanup and Requirement stages passed, from the `if call ==
\* 'warning'` statement on, for each tag `call` that the Warning stage gives
ValidateCharacterAfter(call) ==
    LET vp == validator_properties
        target_arm == objects_get(bpy_data, vp.target_arm)
        target_mesh == objects_get(bpy_data, vp.target_mesh)
        md1 == write_bone_names(vp.metadata, bone_selector_collection)
        md2 == write_addon_version(write_shapekey_names(vp.target_mesh, md1, bpy_data))
    IN  \E v \in {validate_character([vp EXCEPT !.metadata = md2], bpy_data, files)} :
        \E t \in {copy_texture_files(v.files.main.images, 1, [bound |-> FALSE, paths |-> << >>],
                                     << >>)} :
        \E export_outcome \in {"ok", "FileNotFoundError", "Exception"} \
                                 (IF t.raised THEN {"ok"} ELSE {}) :
        LET vs == [v.vp EXCEPT !.validation_status = status_after(call, @)] IN
        /\ pre_checks(bpy_data, target_arm, target_mesh, md1.body.bone_names, md1.eyes_rig)
        /\ v.result = "raised" /\ v.vp.validation_fail_messages # {}
        /\ validator_properties' = vs
        /\ files' = IF export_outcome = "ok" THEN ExportData(v.files, vs.metadata) ELSE v.files
        /\ last_run' = Observed("ValidateCharacter", call,
                                IF export_outcome = "ok" THEN "FINISHED" ELSE "CANCELLED",
                                v.evaluated \cup {"warning"}, t.texture_paths, {}, export_outcome, 0)
        /\ UNCHANGED <<bpy_data, bone_selector_collection, edits, tv>>

NextExport ==
    \/ \E o \in ObjIds : GrabSelectedArmOperator(o)
    \/ \E o \in ObjIds : GrabSelectedMeshOperator(o)
    \/ AutoAssignBones
    \/ ValidateCharacter
    \/ \E call \in {"warning", "clean"} : ValidateCharacterAfter(call)
    \/ ExportData_call

SpecExport == InitExport /\ [][NextExport]_vars

C28_BlendshapeNamesOnTargetMesh ==
    (last_run.op = "ValidateCharacter" /\ last_run.call # "none") =>
        LET target_mesh == objects_get(bpy_data, validator_properties.target_mesh)
            names == validator_properties.metadata.face.blendshape_names
        IN  \A r \in BlendshapeRoles :
               names[r] # NoName =>
                  /\ IsMesh(bpy_data, target_mesh)
                  /\ names[r] \in bpy_data.shape_keys[target_mesh]

\* the files of the images that are in use, not packed and not ignored, and
\* whose source is one of FILE, TILED and SEQUENCE, in the order of the images
RECURSIVE OwnFiles(_)
OwnFiles(images) ==
    IF images = << >> THEN << >>
    ELSE (IF /\ Head(images).users /\ ~Head(images).packed_file
             /\ Head(images).name \notin {"Render Result", "Viewer Node"}
             /\ Head(images).source \in {"FILE", "TILED", "SEQUENCE"}
          THEN Head(images).files ELSE << >>) \o OwnFiles(Tail(images))

\* C29: ExportData collects for each image its own files only, and an image
\* of another source neither adds a file nor makes the export raise.
C29_OnlyOwnTextureFiles ==
    last_run.op = "ExportData" =>
        /\ last_run.export # "UnboundLocalError"
        /\ last_run.export = "ok" => last_run.applied = OwnFiles(bpy_data.images)


\* C30: every step of CleanupCharacter leaves in the backup the content the
\* asset file had before the step; the file is saved with the scene that the
\* mutations leave when the cleanup finishes, and is not written when a
\* mutation raises.
C30_BackupBeforeMutationsSaveAfter ==
    [][CleanupCharacter =>
          /\ files'.backup = {files.main}
          /\ last_run'.returned = "FINISHED" => files'.main = bpy_data'
          /\ last_run'.returned = "RAISED" => files'.main = files.main]_vars

C30_Witness ==
    /\ last_run.op = "CleanupCharacter"
    /\ last_run.returned = "FINISHED"
    /\ last_run.applied # << >>
    /\ files.main = bpy_data
    /\ files.backup # {}
    /\ \A b \in files.backup : b # files.main

====
